---------------------------- MODULE Spec2Model ----------------------------
(***************************************************************************)
(* Model of the work-history / achievement pipeline of resume-master       *)
(* (src/src/server/api/routers/document/work-history.ts).                  *)
(*                                                                         *)
(* Strings are sequences of one-character strings, so that trim(),         *)
(* toLowerCase() and replace(/\s/g, "") are computed, not assumed.  An     *)
(* optional value (undefined / null in the source) is a sequence of length *)
(* at most one: None or Some(x).  A Date is a record [year, month, day]    *)
(* with month in 0..11 as returned by Date.getMonth().                     *)
(***************************************************************************)
EXTENDS Integers, Sequences, FiniteSets, TLC

VARIABLES
    workHistory,      \* table WorkHistory: set of rows
    workAchievement,  \* table WorkAchievement: rows in createdAt order
    userSkill,        \* table UserSkill: set of rows
    nextId,           \* source of fresh row ids (cuid())
    req,              \* the request that is suspended at an await, if any
    call              \* the last call that returned: arguments, snapshot, result

vars == <<workHistory, workAchievement, userSkill, nextId, req, call>>

-----------------------------------------------------------------------------
(* Optional values *)

None == <<>>
Some(x) == <<x>>
IsSome(o) == Len(o) > 0
Get(o) == o[1]
\* JavaScript a ?? b
OrElse(o, d) == IF IsSome(o) THEN o[1] ELSE d
Opt(S) == {None} \cup {Some(x) : x \in S}

Min2(a, b) == IF a < b THEN a ELSE b
Max2(a, b) == IF a > b THEN a ELSE b
Range(s) == {s[i] : i \in 1..Len(s)}

-----------------------------------------------------------------------------
(* Strings *)

IsWhitespace(c) == c \in {" ", "\t", "\n"}

LowerChar(c) ==
    CASE c = "A" -> "a"
      [] c = "B" -> "b"
      [] c = "C" -> "c"
      [] c = "D" -> "d"
      [] c = "E" -> "e"
      [] c = "F" -> "f"
      [] c = "X" -> "x"
      [] c = "Y" -> "y"
      [] OTHER -> c

\* String.prototype.toLowerCase
ToLowerCase(s) == [i \in 1..Len(s) |-> LowerChar(s[i])]

\* String.prototype.replace(/\s/g, "")
RECURSIVE RemoveWhitespace(_)
RemoveWhitespace(s) ==
    IF s = <<>> THEN <<>>
    ELSE IF IsWhitespace(Head(s)) THEN RemoveWhitespace(Tail(s))
    ELSE <<Head(s)>> \o RemoveWhitespace(Tail(s))

RECURSIVE TrimStart(_)
TrimStart(s) ==
    IF s = <<>> THEN <<>>
    ELSE IF IsWhitespace(Head(s)) THEN TrimStart(Tail(s))
    ELSE s

RECURSIVE TrimEnd(_)
TrimEnd(s) ==
    IF s = <<>> THEN <<>>
    ELSE IF IsWhitespace(s[Len(s)]) THEN TrimEnd(SubSeq(s, 1, Len(s) - 1))
    ELSE s

\* String.prototype.trim
Trim(s) == TrimEnd(TrimStart(s))

-----------------------------------------------------------------------------
(* fastest-levenshtein distance(a, b): the edit distance, computed row by   *)
(* row.  LevRow(prev, a, c, j, acc) extends the row for the character c of  *)
(* b from column j on; acc holds the columns 0..j-1 already computed.       *)

RECURSIVE LevRow(_, _, _, _, _)
LevRow(prev, a, c, j, acc) ==
    IF j > Len(a) THEN acc
    ELSE LET cost == IF a[j] = c THEN 0 ELSE 1
             v == Min2(Min2(prev[j + 1] + 1, acc[j] + 1), prev[j] + cost)
         IN  LevRow(prev, a, c, j + 1, Append(acc, v))

RECURSIVE LevRows(_, _, _, _)
LevRows(prev, a, b, i) ==
    IF i > Len(b) THEN prev
    ELSE LevRows(LevRow(prev, a, b[i], 1, <<prev[1] + 1>>), a, b, i + 1)

distance(a, b) ==
    LevRows([j \in 1..(Len(a) + 1) |-> j - 1], a, b, 1)[Len(a) + 1]

-----------------------------------------------------------------------------
(* Dates *)

MkDate(y, m, d) == [year |-> y, month |-> m, day |-> d]
getFullYear(d) == d.year
getMonth(d) == d.month

-----------------------------------------------------------------------------
(* doWorkHistoryRecordsMatch(existing, newRecord)                           *)
(*   existing  : [companyName, startDate, endDate : Opt(Date)]              *)
(*   newRecord : [company : Opt(Str), startDate, endDate : Opt(Date)]       *)

MaxNameDistance == 5

NormalizeCompany(name) == RemoveWhitespace(ToLowerCase(name))

\* A month index that forgets the factor 12.
MonthIndexNoScale(d) == getFullYear(d) + getMonth(d)

MonthIndex(d) == getFullYear(d) * 12 + getMonth(d)

doWorkHistoryRecordsMatch(existing, newRecord) ==
    LET existingCompany == NormalizeCompany(existing.companyName)
        newCompany == NormalizeCompany(OrElse(newRecord.company, <<>>))
        nameDistance == distance(existingCompany, newCompany)
    IN  IF nameDistance > MaxNameDistance THEN FALSE
        ELSE IF ~IsSome(newRecord.startDate) THEN FALSE
        ELSE IF MonthIndex(existing.startDate) # MonthIndex(Get(newRecord.startDate))
             THEN FALSE
        ELSE IF ~IsSome(existing.endDate) /\ ~IsSome(newRecord.endDate) THEN TRUE
        ELSE IF ~IsSome(existing.endDate) \/ ~IsSome(newRecord.endDate) THEN FALSE
        ELSE MonthIndex(Get(existing.endDate)) = MonthIndex(Get(newRecord.endDate))

-----------------------------------------------------------------------------
(* removeExactDuplicateWorkAchievements(achievements)                       *)
(*   achievements : sequence of [id, description], in createdAt order       *)

\* A normalisation that forgets trim().
NormalizedDescriptionNoTrim(achievement) == ToLowerCase(achievement.description)

NormalizedDescription(achievement) == ToLowerCase(Trim(achievement.description))

\* The for-loop: i is the position, seen / unique / removed the loop's locals.
RECURSIVE RemoveLoop(_, _, _, _, _)
RemoveLoop(achievements, i, seen, unique, removed) ==
    IF i > Len(achievements)
    THEN [uniqueAchievements |-> unique, exactDuplicatesRemoved |-> removed]
    ELSE LET n == NormalizedDescription(achievements[i])
         IN  IF n \notin seen
             THEN RemoveLoop(achievements, i + 1, seen \cup {n},
                             Append(unique, achievements[i]), removed)
             ELSE RemoveLoop(achievements, i + 1, seen, unique, removed + 1)

removeExactDuplicateWorkAchievements(achievements) ==
    RemoveLoop(achievements, 1, {}, <<>>, 0)

-----------------------------------------------------------------------------
(* mergeWorkAchievementsWithAI(achievements), with the reply of             *)
(* llm.invoke(prompt) as an input:                                          *)
(*   reply : [throws : BOOLEAN,            the call rejected                *)
(*            hasFinal : BOOLEAN,          finalAchievements is an array    *)
(*            finalAchievements : sequence of                               *)
(*               [description, originalIndices : Opt(set of numbers)]]      *)

Descriptions(achievements) ==
    [i \in 1..Len(achievements) |-> achievements[i].description]

\* The catch block, and the early return for 0 or 1 achievements.
FallbackResult(achievements) ==
    [finalAchievements |-> Descriptions(achievements), groupsMerged |-> 0]

\* A check that accepts an empty originalIndices array.
HasOriginalIndicesLax(final) == IsSome(final.originalIndices)

HasOriginalIndices(final) ==
    IsSome(final.originalIndices) /\ Get(final.originalIndices) # {}

AllReferencedIndices(finals) ==
    UNION {Get(finals[k].originalIndices) : k \in 1..Len(finals)}

\* A validation that looks for index 1..N-1 only.
MissingIndicesOffByOne(achievements, finals) ==
    {i \in 1..(Len(achievements) - 1) : i \notin AllReferencedIndices(finals)}

MissingIndices(achievements, finals) ==
    {i \in 1..Len(achievements) : i \notin AllReferencedIndices(finals)}

\* The try block: None when it throws, Some(result) when it returns.
TryMergeWithAI(achievements, reply) ==
    IF reply.throws THEN None
    ELSE IF ~reply.hasFinal THEN None
    ELSE IF \E k \in 1..Len(reply.finalAchievements) :
                ~HasOriginalIndices(reply.finalAchievements[k]) THEN None
    ELSE IF MissingIndices(achievements, reply.finalAchievements) # {} THEN None
    ELSE Some([finalAchievements |-> Descriptions(reply.finalAchievements),
               groupsMerged |-> Max2(0, Len(achievements)
                                         - Len(reply.finalAchievements))])

\* TRUE when the call reaches llm.invoke.
CallsLLM(achievements) == Len(achievements) > 1

mergeWorkAchievementsWithAI(achievements, reply) ==
    IF ~CallsLLM(achievements) THEN FallbackResult(achievements)
    ELSE LET t == TryMergeWithAI(achievements, reply)
         IN  IF IsSome(t) THEN Get(t) ELSE FallbackResult(achievements)

-----------------------------------------------------------------------------
(* Calls of the pure functions.  The arguments are drawn by the initial     *)
(* predicate into `call`; the action applies the function.                  *)

Idle == [op |-> "idle"]

EmptyDatabase ==
    /\ workHistory = {}
    /\ workAchievement = <<>>
    /\ userSkill = {}
    /\ nextId = 1
    /\ req = Idle

DatabaseUnchanged == UNCHANGED <<workHistory, workAchievement, userSkill, nextId, req>>

SeqsUpTo(S, n) == UNION {[1..k -> S] : k \in 0..n}

\* Company names: "", "abcde", "abcdef", "ABCDEF", " a b\tc d e f",
\* "A b C d E", "abXdYf", "fedcba"
CompanyNames ==
    { <<>>,
      <<"a", "b", "c", "d", "e">>,
      <<"a", "b", "c", "d", "e", "f">>,
      <<"A", "B", "C", "D", "E", "F">>,
      <<" ", "a", " ", "b", "\t", "c", " ", "d", " ", "e", " ", "f">>,
      <<"A", " ", "b", " ", "C", " ", "d", " ", "E">>,
      <<"a", "b", "X", "d", "Y", "f">>,
      <<"f", "e", "d", "c", "b", "a">> }

MatchDates ==
    { MkDate(2020, 0, 1), MkDate(2020, 0, 28), MkDate(2020, 1, 1),
      MkDate(2020, 11, 1), MkDate(2021, 0, 1) }

InitMatch ==
    /\ EmptyDatabase
    /\ call \in [op : {"doWorkHistoryRecordsMatch"},
                 done : {FALSE},
                 existing : [companyName : CompanyNames,
                             startDate : MatchDates,
                             endDate : Opt(MatchDates)],
                 newRecord : [company : Opt(CompanyNames),
                              startDate : Opt(MatchDates),
                              endDate : Opt(MatchDates)],
                 result : {FALSE}]

CallMatch ==
    /\ call.op = "doWorkHistoryRecordsMatch"
    /\ ~call.done
    /\ call' = [call EXCEPT
                  !.done = TRUE,
                  !.result = doWorkHistoryRecordsMatch(call.existing, call.newRecord)]
    /\ DatabaseUnchanged

NextMatch == CallMatch

SpecMatch == InitMatch /\ [][NextMatch]_vars

\* C3: doWorkHistoryRecordsMatch returns true exactly when the company names,
\* lower-cased and stripped of all whitespace (a missing new company counting
\* as ""), are within Levenshtein distance 5, the new start date is present
\* and in the same calendar year and month as the existing one, and the end
\* dates are both absent or both present in the same calendar year and month.
SameYearAndMonth(d1, d2) == d1.year = d2.year /\ d1.month = d2.month

C3_MatchIff ==
    (call.op = "doWorkHistoryRecordsMatch" /\ call.done) =>
        LET e == call.existing
            n == call.newRecord
            newName == IF n.company = None THEN <<>> ELSE n.company[1]
        IN  call.result <=>
              /\ distance(RemoveWhitespace(ToLowerCase(e.companyName)),
                          RemoveWhitespace(ToLowerCase(newName))) <= 5
              /\ n.startDate # None
              /\ SameYearAndMonth(e.startDate, n.startDate[1])
              /\ \/ e.endDate = None /\ n.endDate = None
                 \/ /\ e.endDate # None
                    /\ n.endDate # None
                    /\ SameYearAndMonth(e.endDate[1], n.endDate[1])

\* A match of two differently written names at distance exactly 5, with both
\* end dates present on different days of the same month.
C3_Witness ==
    /\ call.op = "doWorkHistoryRecordsMatch"
    /\ call.done
    /\ call.result
    /\ call.existing.companyName = <<>>
    /\ call.newRecord.company = Some(<<"A", " ", "b", " ", "C", " ", "d", " ", "E">>)
    /\ call.existing.endDate = Some(MkDate(2020, 0, 1))
    /\ call.newRecord.endDate = Some(MkDate(2020, 0, 28))

-----------------------------------------------------------------------------
(* removeExactDuplicateWorkAchievements on every list of up to              *)
(* MaxAchievements achievements                                             *)

MaxAchievements == 3

\* Descriptions: "x", "X", " x ", "y", "x y", "xy"
DescriptionPool ==
    { <<"x">>, <<"X">>, <<" ", "x", " ">>, <<"y">>,
      <<"x", " ", "y">>, <<"x", "y">> }

\* Rows as findMany returns them: ids in creation order.
WithIds(descs) == [i \in 1..Len(descs) |-> [id |-> i, description |-> descs[i]]]

InitExact ==
    /\ EmptyDatabase
    /\ \E descs \in SeqsUpTo(DescriptionPool, MaxAchievements) :
          call = [op |-> "removeExactDuplicateWorkAchievements",
                  done |-> FALSE,
                  achievements |-> WithIds(descs),
                  result |-> [uniqueAchievements |-> <<>>,
                              exactDuplicatesRemoved |-> 0]]

CallExact ==
    /\ call.op = "removeExactDuplicateWorkAchievements"
    /\ ~call.done
    /\ call' = [call EXCEPT
                  !.done = TRUE,
                  !.result = removeExactDuplicateWorkAchievements(call.achievements)]
    /\ DatabaseUnchanged

NextExact == CallExact

SpecExact == InitExact /\ [][NextExact]_vars

\* C5: the output is the subsequence of first (oldest) occurrences of each
\* description compared after trim and lower-casing; no two outputs agree
\* after trim and lower-casing; output length plus exactDuplicatesRemoved is
\* the input length; and the function removes nothing from its own output.
C5_KeepsOldest ==
    (call.op = "removeExactDuplicateWorkAchievements" /\ call.done) =>
        LET in == call.achievements
            u == call.result.uniqueAchievements
            norm(a) == ToLowerCase(Trim(a.description))
            first == {i \in 1..Len(in) :
                        \A j \in 1..(i - 1) : norm(in[j]) # norm(in[i])}
            kth(k) == CHOOSE i \in first :
                        Cardinality({j \in first : j < i}) = k - 1
        IN  /\ Len(u) = Cardinality(first)
            /\ \A k \in 1..Len(u) : u[k] = in[kth(k)]
            /\ \A k, l \in 1..Len(u) : k # l => norm(u[k]) # norm(u[l])
            /\ Len(u) + call.result.exactDuplicatesRemoved = Len(in)
            /\ removeExactDuplicateWorkAchievements(u) =
                 [uniqueAchievements |-> u, exactDuplicatesRemoved |-> 0]

\* "X", "y", " x ": the third is a duplicate of the first only after trim and
\* lower-casing, and the oldest ("X") is the one kept.
C5_Witness ==
    /\ call.op = "removeExactDuplicateWorkAchievements"
    /\ call.done
    /\ Descriptions(call.achievements) = << <<"X">>, <<"y">>, <<" ", "x", " ">> >>
    /\ Descriptions(call.result.uniqueAchievements) = << <<"X">>, <<"y">> >>
    /\ call.result.exactDuplicatesRemoved = 1

-----------------------------------------------------------------------------
(* mergeWorkAchievementsWithAI on every list of up to MaxAchievements       *)
(* achievements and every reply of up to MaxFinal final achievements        *)

MaxFinal == 2

InputDescriptions == { <<"x">>, <<"y">> }

\* The k-th final achievement of a reply reads ReplyDescription(k): a new
\* text for odd k, the text of an input for even k.
ReplyDescription(k) == IF k % 2 = 1 THEN <<"x", "y">> ELSE <<"x">>

\* Replies to a prompt listing n achievements: indices may be out of range.
Finals(n) ==
    { f \in SeqsUpTo([description : {ReplyDescription(1), ReplyDescription(2)},
                      originalIndices : Opt(SUBSET (1..(n + 1)))], MaxFinal) :
        \A k \in 1..Len(f) : f[k].description = ReplyDescription(k) }

Replies(n) ==
    [throws : {TRUE}, hasFinal : {FALSE}, finalAchievements : {<<>>}]
    \cup [throws : {FALSE}, hasFinal : {FALSE}, finalAchievements : {<<>>}]
    \cup [throws : {FALSE}, hasFinal : {TRUE}, finalAchievements : Finals(n)]

NoReply == [throws |-> FALSE, hasFinal |-> FALSE, finalAchievements |-> <<>>]

InitAI ==
    /\ EmptyDatabase
    /\ \E descs \in SeqsUpTo(InputDescriptions, MaxAchievements) :
          call = [op |-> "mergeWorkAchievementsWithAI",
                  done |-> FALSE,
                  achievements |-> WithIds(descs),
                  llmCalled |-> FALSE,
                  reply |-> NoReply,
                  result |-> FallbackResult(<<>>)]

\* The call without llm.invoke (0 or 1 achievements).
CallAIShort ==
    /\ call.op = "mergeWorkAchievementsWithAI"
    /\ ~call.done
    /\ ~CallsLLM(call.achievements)
    /\ call' = [call EXCEPT
                  !.done = TRUE,
                  !.result = mergeWorkAchievementsWithAI(call.achievements, NoReply)]
    /\ DatabaseUnchanged

\* The call with llm.invoke answering `reply`.
CallAI ==
    /\ call.op = "mergeWorkAchievementsWithAI"
    /\ ~call.done
    /\ CallsLLM(call.achievements)
    /\ \E reply \in Replies(Len(call.achievements)) :
          call' = [call EXCEPT
                     !.done = TRUE,
                     !.llmCalled = TRUE,
                     !.reply = reply,
                     !.result = mergeWorkAchievementsWithAI(call.achievements, reply)]
    /\ DatabaseUnchanged

NextAI == CallAIShort \/ CallAI

SpecAI == InitAI /\ [][NextAI]_vars

AIDone == call.op = "mergeWorkAchievementsWithAI" /\ call.done

InputOf(c) == [i \in 1..Len(c.achievements) |-> c.achievements[i].description]

ReplyTexts(c) ==
    [k \in 1..Len(c.reply.finalAchievements) |-> c.reply.finalAchievements[k].description]

\* Index i is named by the originalIndices of some final achievement of the reply.
Referenced(c, i) ==
    \E k \in 1..Len(c.reply.finalAchievements) :
        /\ c.reply.finalAchievements[k].originalIndices # None
        /\ i \in c.reply.finalAchievements[k].originalIndices[1]

\* C1: with N >= 2 achievements, the reply's final achievements are returned
\* only if every index 1..N is referenced; if some index is referenced by
\* none, the N input descriptions are returned in order with groupsMerged = 0.
C1_AllAccountedFor ==
    (AIDone /\ Len(call.achievements) >= 2) =>
        LET N == Len(call.achievements)
            covered == \A i \in 1..N : Referenced(call, i)
        IN  /\ ~covered =>
                 /\ call.result.finalAchievements = InputOf(call)
                 /\ call.result.groupsMerged = 0
            /\ (/\ ~call.reply.throws
                /\ call.reply.hasFinal
                /\ call.result.finalAchievements = ReplyTexts(call)
                /\ ReplyTexts(call) # InputOf(call)) => covered

\* Three achievements, a reply that references only 1 and 2 (and the
\* out-of-range 4): the reply is discarded.
C1_Witness ==
    /\ AIDone
    /\ Len(call.achievements) = 3
    /\ ~call.reply.throws
    /\ call.reply.hasFinal
    /\ Len(call.reply.finalAchievements) = 2
    /\ call.reply.finalAchievements[1].originalIndices = Some({1, 2})
    /\ call.reply.finalAchievements[2].originalIndices = Some({4})
    /\ call.result.finalAchievements = InputOf(call)
    /\ call.result.finalAchievements # ReplyTexts(call)

\* C2: the function always returns; when the LLM call throws, the reply has
\* no finalAchievements array, or a final achievement has empty or missing
\* originalIndices, the result is the input descriptions in order with
\* groupsMerged = 0; with 0 or 1 inputs the same is returned without any
\* LLM call.
C2_Fallback ==
    AIDone =>
        LET N == Len(call.achievements)
            bad == \/ call.reply.throws
                   \/ ~call.reply.hasFinal
                   \/ \E k \in 1..Len(call.reply.finalAchievements) :
                         \/ call.reply.finalAchievements[k].originalIndices = None
                         \/ call.reply.finalAchievements[k].originalIndices = Some({})
        IN  /\ (N >= 2 /\ bad) =>
                 /\ call.result.finalAchievements = InputOf(call)
                 /\ Len(call.result.finalAchievements) = N
                 /\ call.result.groupsMerged = 0
            /\ N <= 1 =>
                 /\ ~call.llmCalled
                 /\ call.result.finalAchievements = InputOf(call)
                 /\ call.result.groupsMerged = 0

\* Two achievements; the first final achievement references both, the second
\* has an empty originalIndices: the fallback is returned.
C2_Witness ==
    /\ AIDone
    /\ Len(call.achievements) = 2
    /\ call.llmCalled
    /\ ~call.reply.throws
    /\ call.reply.hasFinal
    /\ Len(call.reply.finalAchievements) = 2
    /\ call.reply.finalAchievements[1].originalIndices = Some({1, 2})
    /\ call.reply.finalAchievements[2].originalIndices = Some({})
    /\ call.result.finalAchievements = InputOf(call)
    /\ call.result.groupsMerged = 0

-----------------------------------------------------------------------------
(* The database.                                                            *)
(*   WorkHistory row     : [id, userId, companyName, jobTitle, startDate,   *)
(*                          endDate : Opt(Date)]                            *)
(*   WorkAchievement row : [id, workHistoryId, description]; the table is   *)
(*                         kept in createdAt order                          *)

Users == {"u1", "u2"}

AccessDenied == "Work history not found or access denied"

\* A lookup that forgets the owner.
FindWorkHistoryAnyUser(id, userId) == {w \in workHistory : w.id = id}

\* db.workHistory.findFirst({ where: { id, userId } })
FindWorkHistory(id, userId) == {w \in workHistory : w.id = id /\ w.userId = userId}

\* db.workAchievement.findMany({ where: { workHistoryId }, orderBy: createdAt asc })
AchievementsOf(table, workHistoryId) ==
    SelectSeq(table, LAMBDA r : r.workHistoryId = workHistoryId)

\* the rows findMany hands to the helpers: id and description
Records(rows) == [i \in 1..Len(rows) |-> [id |-> rows[i].id,
                                          description |-> rows[i].description]]

\* tx.workAchievement.deleteMany({ where: { workHistoryId } })
DeleteAchievementsOf(table, workHistoryId) ==
    SelectSeq(table, LAMBDA r : r.workHistoryId # workHistoryId)

\* tx.workAchievement.deleteMany({ where: { id: { in: ids }, workHistoryId } })
DeleteAchievementsIn(table, ids, workHistoryId) ==
    SelectSeq(table, LAMBDA r : ~(r.id \in ids /\ r.workHistoryId = workHistoryId))

\* A create that skips a description the work history already stores.
CreateAchievementsDistinct(table, workHistoryId, descriptions, firstId) ==
    LET fresh == SelectSeq(descriptions, LAMBDA d :
                     \A i \in 1..Len(table) :
                         ~(table[i].workHistoryId = workHistoryId
                           /\ table[i].description = d))
    IN  table \o [i \in 1..Len(fresh) |->
                    [id |-> firstId + i - 1,
                     workHistoryId |-> workHistoryId,
                     description |-> fresh[i]]]

\* tx.workAchievement.createMany / create: new rows with fresh ids from firstId on
CreateAchievements(table, workHistoryId, descriptions, firstId) ==
    table \o [i \in 1..Len(descriptions) |->
                [id |-> firstId + i - 1,
                 workHistoryId |-> workHistoryId,
                 description |-> descriptions[i]]]

\* Ids are never reused: rows can be created while ids remain below the bound.
MaxRowId == 7

CanCreate(n) == nextId + n - 1 <= MaxRowId

-----------------------------------------------------------------------------
(* createAchievement (router): no ownership check, the foreign key only     *)

CreateAchievement(workHistoryId, description) ==
    /\ \E w \in workHistory : w.id = workHistoryId
    /\ CanCreate(1)
    /\ workAchievement' =
          CreateAchievements(workAchievement, workHistoryId, <<description>>, nextId)
    /\ nextId' = nextId + 1
    /\ call' = [op |-> "createAchievement"]
    /\ UNCHANGED <<workHistory, userSkill, req>>

-----------------------------------------------------------------------------
(* deduplicateAndMergeWorkAchievements(db, userId, workHistoryId, dryRun)   *)
(* The request reads (steps 1 and 2), awaits the LLM (step 3) and then      *)
(* returns the preview or writes (step 4).  DedupeStart runs up to the      *)
(* await; DedupeFinish runs from the LLM's reply to the return.             *)

PreviewOf(descriptions, action) ==
    [i \in 1..Len(descriptions) |-> [description |-> descriptions[i], action |-> action]]

\* The return for 0 or 1 achievements.
DedupeResultFew(achievements) ==
    [success |-> TRUE,
     originalCount |-> Len(achievements),
     finalCount |-> Len(achievements),
     exactDuplicatesRemoved |-> 0,
     similarGroupsMerged |-> 0,
     preview |-> <<>>]

\* The return when at most one achievement is left after exact deduplication.
DedupeResultExact(achievements, dd) ==
    [success |-> TRUE,
     originalCount |-> Len(achievements),
     finalCount |-> Len(dd.uniqueAchievements),
     exactDuplicatesRemoved |-> dd.exactDuplicatesRemoved,
     similarGroupsMerged |-> 0,
     preview |-> PreviewOf(Descriptions(dd.uniqueAchievements), "kept")]

\* The return after the AI merge: the dry run's preview or the final list.
DedupeResultMerged(achievements, dd, mergeResult, dryRun) ==
    [success |-> TRUE,
     originalCount |-> Len(achievements),
     finalCount |-> Len(mergeResult.finalAchievements),
     exactDuplicatesRemoved |-> dd.exactDuplicatesRemoved,
     similarGroupsMerged |-> mergeResult.groupsMerged,
     preview |-> PreviewOf(mergeResult.finalAchievements,
                           IF dryRun THEN "merged" ELSE "final")]

\* ids of the rows that are not kept by the exact deduplication
DuplicateIds(achievements, uniqueAchievements) ==
    {achievements[i].id : i \in 1..Len(achievements)}
        \ {uniqueAchievements[i].id : i \in 1..Len(uniqueAchievements)}

\* A step 2 that deletes the duplicates in a dry run too.
TableAfterExactAlways(table, workHistoryId, achievements, dd, dryRun) ==
    DeleteAchievementsIn(table,
        DuplicateIds(achievements, dd.uniqueAchievements), workHistoryId)

\* The table after the quick transaction of step 2.
TableAfterExact(table, workHistoryId, achievements, dd, dryRun) ==
    IF ~dryRun /\ dd.exactDuplicatesRemoved > 0
    THEN DeleteAchievementsIn(table,
             DuplicateIds(achievements, dd.uniqueAchievements), workHistoryId)
    ELSE table

\* The table after the transaction of step 4.
TableAfterMerge(table, workHistoryId, mergeResult, firstId) ==
    CreateAchievements(DeleteAchievementsOf(table, workHistoryId),
                       workHistoryId, mergeResult.finalAchievements, firstId)

\* The value of `call` after a throw carries the message and no result.
NoDedupeResult ==
    [success |-> FALSE, originalCount |-> 0, finalCount |-> 0,
     exactDuplicatesRemoved |-> 0, similarGroupsMerged |-> 0, preview |-> <<>>]

NoError == ""

DedupeCall(userId, workHistoryId, dryRun, outcome, path, mergeResult, error, result) ==
    [op |-> "deduplicateAndMergeWorkAchievements",
     workHistoryId |-> workHistoryId,
     dryRun |-> dryRun,
     outcome |-> outcome,
     path |-> path,
     mergeResult |-> mergeResult,
     error |-> error,
     result |-> result]

NoMerge == FallbackResult(<<>>)

DedupeStart(userId, workHistoryId, dryRun) ==
    /\ req = Idle
    /\ IF FindWorkHistory(workHistoryId, userId) = {}
       THEN /\ call' = DedupeCall(userId, workHistoryId, dryRun, "throw",
                                  "denied", NoMerge, AccessDenied, NoDedupeResult)
            /\ UNCHANGED <<workAchievement, req>>
       ELSE LET achievements == Records(AchievementsOf(workAchievement, workHistoryId))
                dd == removeExactDuplicateWorkAchievements(achievements)
            IN  IF Len(achievements) <= 1
                THEN /\ call' = DedupeCall(userId, workHistoryId, dryRun, "return",
                                           "few", NoMerge, NoError,
                                           DedupeResultFew(achievements))
                     /\ UNCHANGED <<workAchievement, req>>
                ELSE IF Len(dd.uniqueAchievements) <= 1
                THEN /\ workAchievement' =
                            TableAfterExact(workAchievement, workHistoryId,
                                            achievements, dd, dryRun)
                     /\ call' = DedupeCall(userId, workHistoryId, dryRun, "return",
                                           "exact", NoMerge, NoError,
                                           DedupeResultExact(achievements, dd))
                     /\ UNCHANGED req
                ELSE /\ req' = [op |-> "deduplicateAndMergeWorkAchievements",
                                userId |-> userId,
                                workHistoryId |-> workHistoryId,
                                dryRun |-> dryRun,
                                achievements |-> achievements]
                     /\ UNCHANGED <<workAchievement, call>>
    /\ UNCHANGED <<workHistory, userSkill, nextId>>

DedupeFinish(reply) ==
    /\ req.op = "deduplicateAndMergeWorkAchievements"
    /\ LET achievements == req.achievements
           dd == removeExactDuplicateWorkAchievements(achievements)
           mergeResult == mergeWorkAchievementsWithAI(dd.uniqueAchievements, reply)
           n == Len(mergeResult.finalAchievements)
       IN  /\ req.dryRun \/ CanCreate(n)
           /\ IF req.dryRun
              THEN UNCHANGED <<workAchievement, nextId>>
              ELSE /\ workAchievement' =
                          TableAfterMerge(workAchievement, req.workHistoryId,
                                          mergeResult, nextId)
                   /\ nextId' = nextId + n
           /\ call' = DedupeCall(req.userId, req.workHistoryId, req.dryRun, "return",
                                 "ai", mergeResult, NoError,
                                 DedupeResultMerged(achievements, dd, mergeResult,
                                                    req.dryRun))
    /\ req' = Idle
    /\ UNCHANGED <<workHistory, userSkill>>

-----------------------------------------------------------------------------
(* applyApprovedWorkAchievements(db, userId, workHistoryId, approved)       *)
(* committed = FALSE: the transaction fails and is rolled back.             *)

NoApplyResult == [success |-> FALSE, appliedCount |-> 0]

ApplyCall(userId, workHistoryId, approved, outcome, error, result) ==
    [op |-> "applyApprovedWorkAchievements",
     workHistoryId |-> workHistoryId,
     outcome |-> outcome,
     error |-> error,
     result |-> result]

\* A transaction that forgets the deleteMany.
TableAfterApplyNoDelete(table, workHistoryId, approved, firstId) ==
    CreateAchievements(table, workHistoryId, approved, firstId)

TableAfterApply(table, workHistoryId, approved, firstId) ==
    CreateAchievements(DeleteAchievementsOf(table, workHistoryId),
                       workHistoryId, approved, firstId)

ApplyApproved(userId, workHistoryId, approved, committed) ==
    /\ IF FindWorkHistory(workHistoryId, userId) = {}
       THEN /\ call' = ApplyCall(userId, workHistoryId, approved, "throw", AccessDenied,
                             NoApplyResult)
            /\ UNCHANGED <<workAchievement, nextId>>
       ELSE IF ~committed
       THEN /\ call' = ApplyCall(userId, workHistoryId, approved, "throw",
                                 "transaction failed", NoApplyResult)
            /\ UNCHANGED <<workAchievement, nextId>>
       ELSE /\ CanCreate(Len(approved))
            /\ workAchievement' =
                  TableAfterApply(workAchievement, workHistoryId, approved, nextId)
            /\ nextId' = nextId + Len(approved)
            /\ call' = ApplyCall(userId, workHistoryId, approved, "return", NoError,
                                 [success |-> TRUE, appliedCount |-> Len(approved)])
    /\ UNCHANGED <<workHistory, userSkill, req>>

-----------------------------------------------------------------------------
(* Specification of the achievement operations: two work histories, one per *)
(* user, and requests of user u1 on either of them or on a missing id.      *)
(* Row ids 1..4 are taken by the initial rows.                              *)

Acme == <<"A", "c", "m", "e">>
Engineer == <<"E", "n", "g">>

StoredWorkHistory(id, userId) ==
    [id |-> id, userId |-> userId, companyName |-> Acme, jobTitle |-> Engineer,
     startDate |-> MkDate(2020, 0, 1), endDate |-> None]

MissingId == 0

\* Stored descriptions: "x", "X" (the same after normalisation) and "y"
AchDescriptions == { <<"x">>, <<"X">>, <<"y">> }

\* Approved descriptions: "x" and "y"
ApprovedDescriptions == { <<"x">>, <<"y">> }

MaxApproved == 2

\* The signed-in user (ctx.session.user.id) of every request.
Caller == "u1"

\* User u1 owns work history 1, which starts without achievements; user u2
\* owns work history 2, which holds "x" and "X" (rows 3 and 4).
Init ==
    /\ workHistory = {StoredWorkHistory(1, "u1"), StoredWorkHistory(2, "u2")}
    /\ workAchievement = CreateAchievements(<<>>, 2, << <<"x">>, <<"X">> >>, 3)
    /\ userSkill = {}
    /\ nextId = 5
    /\ req = Idle
    /\ call = [op |-> "none"]

WorkHistoryArgs == {w.id : w \in workHistory} \cup {MissingId}

\* The caller adds achievements to their own work histories.
DoCreateAchievement ==
    \E w \in {h.id : h \in {h \in workHistory : h.userId = Caller}},
       d \in AchDescriptions : CreateAchievement(w, d)

DoDedupeStart ==
    \E w \in WorkHistoryArgs, dryRun \in BOOLEAN : DedupeStart(Caller, w, dryRun)

\* The replies the LLM gives to a request on n achievements: a failure, all
\* merged into one, each kept on its own (reworded), and the last one dropped.
SampleReplies(n) ==
    { [throws |-> TRUE, hasFinal |-> FALSE, finalAchievements |-> <<>>],
      [throws |-> FALSE, hasFinal |-> TRUE,
       finalAchievements |-> << [description |-> ReplyDescription(1),
                                 originalIndices |-> Some(1..n)] >>],
      [throws |-> FALSE, hasFinal |-> TRUE,
       finalAchievements |-> [k \in 1..n |-> [description |-> ReplyDescription(k),
                                              originalIndices |-> Some({k})]]],
      [throws |-> FALSE, hasFinal |-> TRUE,
       finalAchievements |-> [k \in 1..(n - 1) |->
                                 [description |-> ReplyDescription(k),
                                  originalIndices |-> Some({k})]]] }

DoDedupeFinish ==
    /\ req.op = "deduplicateAndMergeWorkAchievements"
    /\ \E reply \in SampleReplies(Len(removeExactDuplicateWorkAchievements(
                                         req.achievements).uniqueAchievements)) :
          DedupeFinish(reply)

DoApplyApproved ==
    \E w \in WorkHistoryArgs,
       approved \in SeqsUpTo(ApprovedDescriptions, MaxApproved), committed \in BOOLEAN :
          ApplyApproved(Caller, w, approved, committed)

Next ==
    \/ DoCreateAchievement
    \/ DoDedupeStart
    \/ DoDedupeFinish
    \/ DoApplyApproved

Spec == Init /\ [][Next]_vars

-----------------------------------------------------------------------------
(* Properties of the achievement operations.  A step of an operation is     *)
(* recognised by the action that takes it.                                  *)

DedupeOp == "deduplicateAndMergeWorkAchievements"
ApplyOp == "applyApprovedWorkAchievements"

Owned(workHistoryId) == \E w \in workHistory : w.id = workHistoryId /\ w.userId = Caller

\* The step is a dry run on work history w that returns without an LLM call
\* (no other step leaves such a value in `call` with no request suspended).
DryReturnAtStart(w) ==
    /\ req = Idle
    /\ req' = Idle
    /\ call'.op = DedupeOp
    /\ call'.dryRun
    /\ call'.workHistoryId = w

\* The step is a dry run on work history w that suspends at the LLM call.
DrySuspend(w) ==
    /\ req = Idle
    /\ req' # Idle
    /\ req'.dryRun
    /\ req'.workHistoryId = w

\* The step is a dry run that returns after the LLM call.
DryReturnAtFinish ==
    /\ req # Idle
    /\ req' = Idle
    /\ req.dryRun

PreviewTexts(result) == [i \in 1..Len(result.preview) |-> result.preview[i].description]

StoredTexts(table, w) ==
    [i \in 1..Len(AchievementsOf(table, w)) |-> AchievementsOf(table, w)[i].description]

\* What a run with dryRun = false leaves stored when it returns at step 1 or 2.
NonDryTableAtStart(w) ==
    LET achievements == Records(AchievementsOf(workAchievement, w))
        dd == removeExactDuplicateWorkAchievements(achievements)
    IN  IF Len(achievements) <= 1 THEN workAchievement
        ELSE TableAfterExact(workAchievement, w, achievements, dd, FALSE)

\* What a run with dryRun = false and the same merge result stores at step 4.
NonDryTableAtFinish ==
    TableAfterMerge(workAchievement, req.workHistoryId, call'.mergeResult, nextId)

DryRunChangesNothing ==
    /\ \A w \in WorkHistoryArgs :
          (DryReturnAtStart(w) \/ DrySuspend(w)) => workAchievement' = workAchievement
    /\ DryReturnAtFinish => workAchievement' = workAchievement

\* C4 as stated: a dry run changes no stored achievement on any path, and its
\* preview lists the descriptions a run with dryRun = false would leave stored.
C4_AsStated ==
    [][/\ DryRunChangesNothing
       /\ \A w \in WorkHistoryArgs :
             (DryReturnAtStart(w) /\ Owned(w)) =>
                 PreviewTexts(call'.result) = StoredTexts(NonDryTableAtStart(w), w)
       /\ DryReturnAtFinish =>
             PreviewTexts(call'.result) =
                 StoredTexts(NonDryTableAtFinish, req.workHistoryId)]_vars

\* C4, amended: a dry run changes no stored achievement on any path; when the
\* work history has two or more achievements its preview lists the
\* descriptions a run with dryRun = false would leave stored, and when it
\* has 0 or 1 the preview is empty.
C4_DryRun ==
    [][/\ DryRunChangesNothing
       /\ \A w \in WorkHistoryArgs :
             (DryReturnAtStart(w) /\ Owned(w)) =>
                 IF Len(AchievementsOf(workAchievement, w)) >= 2
                 THEN PreviewTexts(call'.result) = StoredTexts(NonDryTableAtStart(w), w)
                 ELSE call'.result.preview = <<>>
       /\ DryReturnAtFinish =>
             PreviewTexts(call'.result) =
                 StoredTexts(NonDryTableAtFinish, req.workHistoryId)]_vars

\* A dry run that went through the AI merge and previews one merged
\* achievement while two are still stored.
C4_Witness ==
    /\ call.op = DedupeOp
    /\ call.dryRun
    /\ call.outcome = "return"
    /\ call.path = "ai"
    /\ Len(call.result.preview) = 1
    /\ Len(AchievementsOf(workAchievement, call.workHistoryId)) = 2

\* C6: a successful applyApprovedWorkAchievements on an owned work history
\* leaves exactly one new row per approved description, in order, removes
\* every row the work history had, touches no other work history, returns
\* appliedCount = approved.length and starts no LLM call; a failed
\* transaction leaves the table as it was.
C6_AppliesExactly ==
    [][call'.op = ApplyOp =>
         \A w \in {call'.workHistoryId}, approved \in SeqsUpTo(ApprovedDescriptions, MaxApproved),
            committed \in BOOLEAN :
              (ApplyApproved(Caller, w, approved, committed) /\ Owned(w)) =>
                 IF committed
                 THEN /\ call'.outcome = "return"
                      /\ call'.result.appliedCount = Len(approved)
                      /\ StoredTexts(workAchievement', w) = approved
                      /\ \A i \in 1..Len(workAchievement) :
                            workAchievement[i].workHistoryId = w =>
                               \A j \in 1..Len(workAchievement') :
                                  workAchievement'[j].id # workAchievement[i].id
                      /\ \A o \in WorkHistoryArgs \ {w} :
                            AchievementsOf(workAchievement', o)
                               = AchievementsOf(workAchievement, o)
                      /\ req' = req
                 ELSE /\ call'.outcome = "throw"
                      /\ workAchievement' = workAchievement]_vars

\* "y", "y" was applied to a work history that held one achievement (row 5):
\* two new rows (6 and 7) with the same text, row 5 is gone and the other
\* user's two achievements are still there.
C6_Witness ==
    /\ call.op = ApplyOp
    /\ call.outcome = "return"
    /\ call.workHistoryId = 1
    /\ call.result.appliedCount = 2
    /\ StoredTexts(workAchievement, 1) = << <<"y">>, <<"y">> >>
    /\ AchievementsOf(workAchievement, 1)[1].id = 6
    /\ nextId = 8
    /\ Len(AchievementsOf(workAchievement, 2)) = 2

\* C10: on a work history that is missing or owned by another user, both
\* functions throw 'Work history not found or access denied', change no
\* achievement and start no LLM call.
C10_AccessDenied ==
    [][\A w \in WorkHistoryArgs :
          ~Owned(w) =>
             /\ call'.op = DedupeOp =>
                \A dryRun \in BOOLEAN :
                   DedupeStart(Caller, w, dryRun) =>
                      /\ call'.outcome = "throw"
                      /\ call'.error = AccessDenied
                      /\ workAchievement' = workAchievement
                      /\ req' = Idle
             /\ call'.op = ApplyOp =>
                   \A approved \in SeqsUpTo(ApprovedDescriptions, MaxApproved),
                      committed \in BOOLEAN :
                         ApplyApproved(Caller, w, approved, committed) =>
                            /\ call'.outcome = "throw"
                            /\ call'.error = AccessDenied
                            /\ workAchievement' = workAchievement
                            /\ req' = req]_vars

\* A refused deduplication (not a dry run) of the other user's work history,
\* which still holds its two achievements, exact duplicates of each other.
C10_Witness ==
    /\ call.op = DedupeOp
    /\ call.outcome = "throw"
    /\ call.error = AccessDenied
    /\ call.workHistoryId = 2
    /\ ~call.dryRun
    /\ StoredTexts(workAchievement, 2) = << <<"x">>, <<"X">> >>

-----------------------------------------------------------------------------
(* mergeWorkHistoryRecords(db, userId, primaryRecordId, secondaryRecordIds, *)
(*                         mergedDetails)                                   *)
(*   UserSkill row : [id, userId, skillId, workHistoryId : Opt(id),         *)
(*                    proficiency, yearsExperience : Opt, source,           *)
(*                    notes : Opt]                                          *)
(*   mergedDetails : [companyName, jobTitle, startDate : string,            *)
(*                    endDate : Opt(string)]                                *)

\* new Date(string): None is an Invalid Date
ParseDate(str) ==
    CASE str = "2021-03-01" -> Some(MkDate(2021, 2, 1))
      [] str = "2022-07-15" -> Some(MkDate(2022, 6, 15))
      [] OTHER -> None

\* mergedDetails.endDate ? new Date(mergedDetails.endDate) : null
\* (an absent and an empty string are both falsy); the result is
\* [valid, value : Opt(Date)].
MergedEndDate(endDate) ==
    IF ~IsSome(endDate) \/ Get(endDate) = ""
    THEN [valid |-> TRUE, value |-> None]
    ELSE [valid |-> IsSome(ParseDate(Get(endDate))), value |-> ParseDate(Get(endDate))]

\* secondaryRecords.flatMap((record) => record.achievements.map(description)),
\* the records taken in the order of secondaryIds (a sequence without repeats)
RECURSIVE AllAchievements(_, _)
AllAchievements(table, secondaryIds) ==
    IF secondaryIds = <<>> THEN <<>>
    ELSE Descriptions(AchievementsOf(table, Head(secondaryIds)))
             \o AllAchievements(table, Tail(secondaryIds))

\* A filter that also drops the first collected achievement.
UniqueNewAchievementsDropFirst(allAchievements, existingAchievements) ==
    SelectSeq(IF allAchievements = <<>> THEN <<>> ELSE Tail(allAchievements),
              LAMBDA a : a \notin Range(existingAchievements))

\* allAchievements.filter((a) => !existingAchievements.includes(a))
UniqueNewAchievements(allAchievements, existingAchievements) ==
    SelectSeq(allAchievements, LAMBDA a : a \notin Range(existingAchievements))

\* A step 3 that deletes every skill of the secondary records.
MergedSkillsDeleteAll(skills, primaryRecordId, secondaryIds) ==
    skills \ {us \in skills : \E id \in secondaryIds : us.workHistoryId = Some(id)}

\* Step 3: a secondary skill moves to the primary record unless the primary
\* already has a UserSkill of that skill, in which case it is deleted.
MergedSkills(skills, primaryRecordId, secondaryIds) ==
    LET primarySkillIds == {us.skillId : us \in
                              {us \in skills : us.workHistoryId = Some(primaryRecordId)}}
        secondary == {us \in skills : \E id \in secondaryIds :
                                         us.workHistoryId = Some(id)}
    IN  (skills \ secondary)
        \cup {[us EXCEPT !.workHistoryId = Some(primaryRecordId)] :
                 us \in {us \in secondary : us.skillId \notin primarySkillIds}}

\* Steps 1 and 4 on the WorkHistory table.
MergedWorkHistory(rows, primaryRecordId, secondaryIds, userId, mergedDetails) ==
    {[w EXCEPT !.companyName = mergedDetails.companyName,
               !.jobTitle = mergedDetails.jobTitle,
               !.startDate = Get(ParseDate(mergedDetails.startDate)),
               !.endDate = MergedEndDate(mergedDetails.endDate).value] :
        w \in {w \in rows : w.id = primaryRecordId}}
    \cup {w \in rows : /\ w.id # primaryRecordId
                       /\ ~(w.id \in secondaryIds /\ w.userId = userId)}

\* WorkAchievement rows go with their work history (onDelete: Cascade).
CascadeAchievements(table, rows) ==
    SelectSeq(table, LAMBDA r : \E w \in rows : w.id = r.workHistoryId)

\* UserSkill rows lose the link to a deleted work history (onDelete: SetNull).
SetNullSkills(skills, rows) ==
    {IF IsSome(us.workHistoryId) /\ ~\E w \in rows : w.id = Get(us.workHistoryId)
     THEN [us EXCEPT !.workHistoryId = None] ELSE us : us \in skills}

MergeOp == "mergeWorkHistoryRecords"

\* `call` after a merge that returned success: true, with its arguments.
MergeCall(primaryRecordId, secondaryRecordIds, mergedDetails) ==
    [op |-> MergeOp,
     primaryRecordId |-> primaryRecordId,
     secondaryRecordIds |-> secondaryRecordIds,
     mergedDetails |-> mergedDetails,
     outcome |-> "return",
     result |-> [success |-> TRUE, message |-> "merged"]]

\* `call` after a merge that returned success: false (the catch block).
MergeFailed(message) ==
    [op |-> MergeOp,
     outcome |-> "return",
     result |-> [success |-> FALSE, message |-> message]]

\* The sorted sequence of a set of ids.
RECURSIVE SortedIds(_)
SortedIds(ids) ==
    IF ids = {} THEN <<>>
    ELSE LET m == CHOOSE x \in ids : \A y \in ids : x <= y
         IN  <<m>> \o SortedIds(ids \ {m})

MergeWorkHistoryRecords(userId, primaryRecordId, secondaryRecordIds, mergedDetails, committed) ==
    LET allRecordIds == <<primaryRecordId>> \o secondaryRecordIds
        workHistories == {w \in workHistory : w.id \in Range(allRecordIds)
                                               /\ w.userId = userId}
        secondaryIds == {w.id : w \in {w \in workHistories :
                                          w.id \in Range(secondaryRecordIds)}}
        uniqueNewAchievements ==
            UniqueNewAchievements(
                AllAchievements(workAchievement, SortedIds(secondaryIds)),
                Descriptions(AchievementsOf(workAchievement, primaryRecordId)))
        rows == MergedWorkHistory(workHistory, primaryRecordId,
                                  Range(secondaryRecordIds), userId, mergedDetails)
    IN  IF Cardinality(workHistories) # Len(allRecordIds)
        THEN /\ call' = MergeFailed("not found")
             /\ UNCHANGED <<workHistory, workAchievement, userSkill, nextId, req>>
        ELSE IF \/ ~IsSome(ParseDate(mergedDetails.startDate))
                \/ ~MergedEndDate(mergedDetails.endDate).valid
                \/ ~committed
        THEN /\ call' = MergeFailed("transaction failed")
             /\ UNCHANGED <<workHistory, workAchievement, userSkill, nextId, req>>
        ELSE /\ workHistory' = rows
             /\ workAchievement' =
                   CascadeAchievements(
                       CreateAchievements(workAchievement, primaryRecordId,
                                          uniqueNewAchievements, nextId), rows)
             /\ userSkill' = SetNullSkills(
                                 MergedSkills(userSkill, primaryRecordId, secondaryIds),
                                 rows)
             /\ nextId' = nextId + Len(uniqueNewAchievements)
             /\ call' = MergeCall(primaryRecordId, secondaryRecordIds, mergedDetails)
             /\ UNCHANGED req

-----------------------------------------------------------------------------
(* Specification of the merge: user u1 owns work histories 1, 2 and 3, user *)
(* u2 owns work history 4 (one achievement); 1 and 2 start with up to       *)
(* MaxPerRecord achievements "x" / "y", 3 with none or with "x".            *)

MaxPerRecord == 2

MergeDescriptions == { <<"x">>, <<"y">> }

SkillRow(id, userId, skillId, workHistoryId) ==
    [id |-> id, userId |-> userId, skillId |-> skillId,
     workHistoryId |-> workHistoryId, proficiency |-> "INTERMEDIATE",
     yearsExperience |-> None, source |-> "WORK_EXPERIENCE", notes |-> None]

MergeSkillSets ==
    { { SkillRow(101, "u1", "s1", Some(2)), SkillRow(102, "u1", "s2", Some(1)),
        SkillRow(103, "u2", "s1", Some(4)) },
      { SkillRow(101, "u1", "s1", Some(3)), SkillRow(102, "u1", "s2", None) } }

Globex == <<"G", "l", "o", "b", "e", "x">>
Lead == <<"L", "e", "a", "d">>

MergedDetailsArgs ==
    { [companyName |-> Globex, jobTitle |-> Lead,
       startDate |-> "2021-03-01", endDate |-> None],
      [companyName |-> Globex, jobTitle |-> Lead,
       startDate |-> "2021-03-01", endDate |-> Some("2022-07-15")],
      [companyName |-> Globex, jobTitle |-> Lead,
       startDate |-> "2021-03-01", endDate |-> Some("")],
      [companyName |-> Globex, jobTitle |-> Lead,
       startDate |-> "2021-03-01", endDate |-> Some("n/a")],
      [companyName |-> Globex, jobTitle |-> Lead,
       startDate |-> "", endDate |-> None] }

PrimaryArgs == {1, 2, 4, MissingId}

SecondaryArgs ==
    { <<2>>, <<3>>, <<2, 3>>, <<3, 2>>, <<2, 2>>, <<1>>, <<4>>, <<MissingId>> }

InitMerge ==
    /\ workHistory = {StoredWorkHistory(1, "u1"), StoredWorkHistory(2, "u1"),
                      StoredWorkHistory(3, "u1"), StoredWorkHistory(4, "u2")}
    /\ \E a1, a2 \in SeqsUpTo(MergeDescriptions, MaxPerRecord),
          a3 \in {<<>>, << <<"x">> >>} :
          /\ workAchievement =
                CreateAchievements(
                    CreateAchievements(
                        CreateAchievements(
                            CreateAchievements(<<>>, 4, << <<"x">> >>, 5),
                            1, a1, 6),
                        2, a2, 6 + Len(a1)),
                    3, a3, 6 + Len(a1) + Len(a2))
          /\ nextId = 6 + Len(a1) + Len(a2) + Len(a3)
    /\ userSkill \in MergeSkillSets
    /\ req = Idle
    /\ call = [op |-> "none"]

DoMerge ==
    \E primary \in PrimaryArgs, secondary \in SecondaryArgs,
       details \in MergedDetailsArgs, committed \in BOOLEAN :
          MergeWorkHistoryRecords(Caller, primary, secondary, details, committed)

NextMerge == DoMerge

SpecMerge == InitMerge /\ [][NextMerge]_vars

\* The step is a successful merge; its arguments are in call'.
MergeSucceeded == call'.op = MergeOp /\ call'.result.success

TextsOn(table, workHistoryId) ==
    {table[i].description : i \in {i \in 1..Len(table) :
                                      table[i].workHistoryId = workHistoryId}}

HasRepeatedText(table, workHistoryId) ==
    \E i, j \in 1..Len(table) :
        /\ i # j
        /\ table[i].workHistoryId = workHistoryId
        /\ table[j].workHistoryId = workHistoryId
        /\ table[i].description = table[j].description

\* C7: after a successful merge every description of every secondary record
\* is on the primary record, every achievement row of the primary is still
\* there, the secondary records are gone, and the primary carries the
\* companyName, jobTitle, startDate and endDate of mergedDetails (endDate
\* null when none is given).
C7_Consolidates ==
    [][MergeSucceeded =>
         LET p == call'.primaryRecordId
             secs == Range(call'.secondaryRecordIds)
             d == call'.mergedDetails
         IN  /\ \A sec \in secs :
                   TextsOn(workAchievement, sec) \subseteq TextsOn(workAchievement', p)
             /\ \A i \in 1..Len(workAchievement) :
                   workAchievement[i].workHistoryId = p =>
                      \E j \in 1..Len(workAchievement') :
                         workAchievement'[j] = workAchievement[i]
             /\ \A w \in workHistory' : w.id \notin secs
             /\ \E w \in workHistory' :
                   /\ w.id = p
                   /\ w.companyName = d.companyName
                   /\ w.jobTitle = d.jobTitle
                   /\ Some(w.startDate) = ParseDate(d.startDate)
                   /\ w.endDate = IF d.endDate = None \/ d.endDate = Some("")
                                  THEN None ELSE ParseDate(d.endDate[1])]_vars

\* Work histories 2 and 3 were merged into 1, which now holds "y" (its own)
\* and "x" (from both secondaries); only the merged record and the other
\* user's record are left.
C7_Witness ==
    /\ call.op = MergeOp
    /\ call.result.success
    /\ call.primaryRecordId = 1
    /\ call.secondaryRecordIds = <<2, 3>>
    /\ call.mergedDetails.endDate = Some("2022-07-15")
    /\ {w.id : w \in workHistory} = {1, 4}
    /\ TextsOn(workAchievement, 1) = { <<"x">>, <<"y">> }
    /\ \E w \in workHistory : w.id = 1 /\ w.companyName = Globex
                                 /\ w.endDate = Some(MkDate(2022, 6, 15))

\* C8: if the primary record has no two achievements with the same
\* description before a successful merge, it has none after it.
C8_NoDuplicates ==
    [][(MergeSucceeded /\ ~HasRepeatedText(workAchievement, call'.primaryRecordId))
          => ~HasRepeatedText(workAchievement', call'.primaryRecordId)]_vars

-----------------------------------------------------------------------------
(* processWorkExperience                                                    *)
(*                                                                          *)
(*   exp (an incoming entry) : [company, jobTitle : Opt(string),            *)
(*                              startDate, endDate : Opt(Date),             *)
(*                              achievements, skills : Opt(Seq(string))]    *)
(*   req while the call runs : [op, userId, existingWorkHistory (the list   *)
(*                              fetched once, each record with its          *)
(*                              achievements), workExperience (the entries  *)
(*                              the loop has not reached yet),              *)
(*                              mergedAchievements (what                    *)
(*                              mergeWorkAchievements returned for the      *)
(*                              entry handled last), normalizedSkills (what *)
(*                              normalizeSkills returned for it)]           *)

PweOp == "processWorkExperience"

\* new Date() inside the call
Now == MkDate(2025, 5, 1)

\* The orders in which findMany (no orderBy) can return a set of rows.
Orderings(rows) ==
    {s \in [1..Cardinality(rows) -> rows] : Range(s) = rows}

\* include: { achievements: true }
IncludeAchievements(w, table) ==
    [id |-> w.id, userId |-> w.userId, companyName |-> w.companyName,
     jobTitle |-> w.jobTitle, startDate |-> w.startDate, endDate |-> w.endDate,
     achievements |-> AchievementsOf(table, w.id)]

\* An index finder that returns the last matching element.
FindLastIndex(existingWorkHistory, exp) ==
    LET hits == {i \in 1..Len(existingWorkHistory) :
                    doWorkHistoryRecordsMatch(existingWorkHistory[i], exp)}
    IN  IF hits = {} THEN 0 ELSE CHOOSE i \in hits : \A j \in hits : j <= i

\* existingWorkHistory.find((existing) => doWorkHistoryRecordsMatch(existing, exp)):
\* the index of the first matching element, 0 for undefined.
FindIndex(existingWorkHistory, exp) ==
    LET hits == {i \in 1..Len(existingWorkHistory) :
                    doWorkHistoryRecordsMatch(existingWorkHistory[i], exp)}
    IN  IF hits = {} THEN 0 ELSE CHOOSE i \in hits : \A j \in hits : i <= j

\* ${value} in a template literal
TemplateValue(o) ==
    IF IsSome(o) THEN Get(o) ELSE <<"u", "n", "d", "e", "f", "i", "n", "e", "d">>

\* `Used at ${exp.company} - ${exp.jobTitle}`
UsedAt(exp) ==
    <<"U", "s", "e", "d", " ", "a", "t", " ">> \o TemplateValue(exp.company)
        \o <<" ", "-", " ">> \o TemplateValue(exp.jobTitle)

\* normalizedSkill.detailedVariant ? ` (${normalizedSkill.detailedVariant})` : ""
VariantSuffix(detailedVariant) ==
    IF IsSome(detailedVariant) /\ Get(detailedVariant) # <<>>
    THEN <<" ", "(">> \o Get(detailedVariant) \o <<")">>
    ELSE <<>>

\* A filter that keeps blank skill strings.
UnfilteredSkills(skills) == skills

\* skills.filter((s) => typeof s === "string" && s.trim() !== "")
NonBlankSkills(skills) == SelectSeq(skills, LAMBDA sk : Trim(sk) # <<>>)

\* The loop over normalizedSkills: the result is [userSkill, nextId].
RECURSIVE UpsertUserSkills(_, _, _, _, _, _)
UpsertUserSkills(skills, normalizedSkills, userId, workHistoryId, exp, firstId) ==
    IF normalizedSkills = <<>> THEN [userSkill |-> skills, nextId |-> firstId]
    ELSE LET normalizedSkill == Head(normalizedSkills)
             found == {us \in skills : /\ us.userId = userId
                                       /\ us.skillId = normalizedSkill.baseSkillId}
             existingUserSkill == CHOOSE us \in found : TRUE
         IN  IF found # {}
             THEN IF ~IsSome(existingUserSkill.workHistoryId)
                  THEN UpsertUserSkills(
                           (skills \ {existingUserSkill})
                               \cup {[existingUserSkill EXCEPT
                                        !.workHistoryId = Some(workHistoryId),
                                        !.notes = Some(UsedAt(exp))]},
                           Tail(normalizedSkills), userId, workHistoryId, exp, firstId)
                  ELSE UpsertUserSkills(skills, Tail(normalizedSkills), userId,
                                        workHistoryId, exp, firstId)
             ELSE UpsertUserSkills(
                      skills \cup
                          {[id |-> firstId, userId |-> userId,
                            skillId |-> normalizedSkill.baseSkillId,
                            workHistoryId |-> Some(workHistoryId),
                            proficiency |-> "INTERMEDIATE",
                            yearsExperience |-> None,
                            source |-> "WORK_EXPERIENCE",
                            notes |-> Some(UsedAt(exp)
                                \o VariantSuffix(normalizedSkill.detailedVariant))]},
                      Tail(normalizedSkills), userId, workHistoryId, exp, firstId + 1)

\* What mergeWorkAchievements(existingAchievements, newAchievements) may
\* return (an LLM merge, ./utils/llm-merger): nothing, the new ones, or all.
MergeWorkAchievementsResults(existingAchievements, newAchievements) ==
    {<<>>, newAchievements, existingAchievements \o newAchievements}

NormalizedSkill(baseSkillId, detailedVariant) ==
    [baseSkillId |-> baseSkillId, detailedVariant |-> detailedVariant]

\* What skillNormalizer.normalizeSkills(skills, "OTHER") may return
\* (~/server/services/skill-normalization): base skills with an optional
\* detailed variant, none for no skill names.
NormalizeSkillsResults(skills) ==
    IF skills = <<>> THEN {<<>>}
    ELSE { <<>>,
           <<NormalizedSkill("s1", None)>>,
           <<NormalizedSkill("s2", None)>>,
           <<NormalizedSkill("s3", Some(<<"T", "S">>))>>,
           <<NormalizedSkill("s3", None), NormalizedSkill("s3", Some(<<>>))>> }

\* Line 746: the user's work history is fetched once, then the loop starts.
PweStart(workExperience, userId) ==
    /\ req = Idle
    /\ \E order \in Orderings({w \in workHistory : w.userId = userId}) :
          req' = [op |-> PweOp,
                  userId |-> userId,
                  existingWorkHistory |->
                      [i \in 1..Len(order) |->
                          IncludeAchievements(order[i], workAchievement)],
                  workExperience |-> workExperience,
                  mergedAchievements |-> <<>>,
                  normalizedSkills |-> <<>>]
    /\ call' = [op |-> PweOp, outcome |-> "pending"]
    /\ UNCHANGED <<workHistory, workAchievement, userSkill, nextId>>

\* One iteration of the loop (lines 753-887) on the next entry.
PweEntry ==
    /\ req.op = PweOp
    /\ req.workExperience # <<>>
    /\ LET exp == Head(req.workExperience)
           userId == req.userId
           existingWorkHistory == req.existingWorkHistory
           found == FindIndex(existingWorkHistory, exp)
           matchingRecord == existingWorkHistory[found]
           newAchievements == OrElse(exp.achievements, <<>>)
           skills == OrElse(exp.skills, <<>>)
       IN  \E mergedAchievements \in
                  (IF found # 0
                   THEN MergeWorkAchievementsResults(
                            Descriptions(matchingRecord.achievements), newAchievements)
                   ELSE {<<>>}),
              normalizedSkills \in
                  (IF Len(skills) > 0
                   THEN NormalizeSkillsResults(NonBlankSkills(skills))
                   ELSE {<<>>}) :
              LET workHistoryId == IF found # 0 THEN matchingRecord.id ELSE nextId
                  firstAchievementId == IF found # 0 THEN nextId ELSE nextId + 1
                  created == IF found # 0 THEN mergedAchievements ELSE newAchievements
                  upserted == UpsertUserSkills(userSkill, normalizedSkills, userId,
                                               workHistoryId, exp,
                                               firstAchievementId + Len(created))
              IN  /\ upserted.nextId - 1 <= MaxRowId
                  /\ workHistory' =
                        IF found # 0
                        THEN {IF w.id = matchingRecord.id
                              THEN [w EXCEPT
                                      !.jobTitle =
                                          OrElse(exp.jobTitle, matchingRecord.jobTitle),
                                      !.startDate =
                                          OrElse(exp.startDate, matchingRecord.startDate),
                                      !.endDate =
                                          IF IsSome(exp.endDate) THEN exp.endDate
                                          ELSE matchingRecord.endDate]
                              ELSE w : w \in workHistory}
                        ELSE workHistory \cup
                                {[id |-> nextId, userId |-> userId,
                                  companyName |-> OrElse(exp.company, <<>>),
                                  jobTitle |-> OrElse(exp.jobTitle, <<>>),
                                  startDate |-> OrElse(exp.startDate, Now),
                                  endDate |-> exp.endDate]}
                  /\ workAchievement' =
                        CreateAchievements(workAchievement, workHistoryId, created,
                                           firstAchievementId)
                  /\ userSkill' = upserted.userSkill
                  /\ nextId' = upserted.nextId
                  /\ req' = [req EXCEPT
                               !.workExperience = Tail(req.workExperience),
                               !.mergedAchievements = mergedAchievements,
                               !.normalizedSkills = normalizedSkills]
    /\ UNCHANGED call

\* The loop is over: the call resolves.
PweEnd ==
    /\ req.op = PweOp
    /\ req.workExperience = <<>>
    /\ req' = Idle
    /\ call' = [op |-> PweOp, outcome |-> "return"]
    /\ UNCHANGED <<workHistory, workAchievement, userSkill, nextId>>

-----------------------------------------------------------------------------
(* Specification of processWorkExperience: user u1 owns work histories 1    *)
(* and 2 (same company up to case and spacing, same dates; 1 has one        *)
(* achievement), user u2 owns 3; u1 has skill s1 (not linked to a work      *)
(* history) and s2 (linked to 1), u2 has s3.                                *)

MaxEntries == 2

Umbrella == <<"U", "m", "b", "r", "e", "l", "l", "a">>
AcmeUpper == <<"A", "C", " ", "M", "E">>
SameMonth == MkDate(2020, 0, 20)
OtherMonth == MkDate(2021, 5, 1)
EndMonth == MkDate(2022, 6, 15)

Entry(company, jobTitle, startDate, endDate, achievements, skills) ==
    [company |-> company, jobTitle |-> jobTitle, startDate |-> startDate,
     endDate |-> endDate, achievements |-> achievements, skills |-> skills]

Entries ==
    { Entry(Some(AcmeUpper), Some(Lead), Some(SameMonth), None,
            Some(<< <<"y">> >>), Some(<< <<"t", "s">> >>)),
      Entry(None, None, Some(SameMonth), None, None, None),
      Entry(Some(Umbrella), Some(Lead), Some(SameMonth), None,
            Some(<< <<"y">> >>), Some(<< <<" ">> >>)),
      Entry(None, None, None, None, None, None),
      Entry(Some(Acme), None, Some(OtherMonth), Some(EndMonth), None, None),
      Entry(Some(Acme), Some(Lead), Some(SameMonth), Some(EndMonth), None, None) }

InitPwe ==
    /\ workHistory = {StoredWorkHistory(1, "u1"),
                      [StoredWorkHistory(2, "u1") EXCEPT !.companyName = AcmeUpper],
                      StoredWorkHistory(3, "u2")}
    /\ workAchievement = CreateAchievements(<<>>, 1, << <<"x">> >>, 4)
    /\ userSkill = {SkillRow(101, "u1", "s1", None), SkillRow(102, "u1", "s2", Some(1)),
                    SkillRow(103, "u2", "s3", None)}
    /\ nextId = 5
    /\ req = Idle
    /\ call = [op |-> "none"]

\* One import per behaviour.
DoPweStart ==
    /\ call.op = "none"
    /\ \E workExperience \in SeqsUpTo(Entries, MaxEntries) :
          PweStart(workExperience, Caller)

NextPwe ==
    \/ DoPweStart
    \/ PweEntry
    \/ PweEnd

SpecPwe == InitPwe /\ [][NextPwe]_vars

\* The step is one loop iteration; its entry is PweExp.
PweEntryStep ==
    /\ req.op = PweOp
    /\ req'.op = PweOp
    /\ Len(req'.workExperience) + 1 = Len(req.workExperience)

PweExp == Head(req.workExperience)

\* The work-history records the step created.
PweCreated == {w \in workHistory' : w.id \notin {v.id : v \in workHistory}}

\* The step changed the record `id` (and no other): jobTitle, startDate and
\* endDate are the entry's when the entry has them, companyName is untouched.
PweUpdated(id, exp) ==
    /\ \E w \in workHistory, u \in workHistory' :
          /\ w.id = id
          /\ u.id = id
          /\ u.userId = w.userId
          /\ u.companyName = w.companyName
          /\ IsSome(exp.jobTitle) => u.jobTitle = Get(exp.jobTitle)
          /\ IsSome(exp.startDate) => u.startDate = Get(exp.startDate)
          /\ IsSome(exp.endDate) => u.endDate = exp.endDate
    /\ \A w \in workHistory : w.id # id => w \in workHistory'
    /\ PweCreated = {}

\* The step created exactly one record, for the user, with the defaults, and
\* left every other record as it was.
PweCreatedOne(userId, exp) ==
    /\ workHistory \subseteq workHistory'
    /\ \E n \in workHistory' :
          /\ PweCreated = {n}
          /\ n.userId = userId
          /\ n.companyName = OrElse(exp.company, <<>>)
          /\ n.jobTitle = OrElse(exp.jobTitle, <<>>)
          /\ n.startDate = OrElse(exp.startDate, Now)
          /\ n.endDate = exp.endDate

\* The first record of the fetched list that matches the entry was updated.
PweFirstFetchedUpdated(exp) ==
    \E i \in 1..Len(req.existingWorkHistory) :
        /\ doWorkHistoryRecordsMatch(req.existingWorkHistory[i], exp)
        /\ \A j \in 1..(i - 1) :
              ~doWorkHistoryRecordsMatch(req.existingWorkHistory[j], exp)
        /\ PweUpdated(req.existingWorkHistory[i].id, exp)

\* C9 as stated: if some stored work-history record of the user matches the
\* entry, the first matching record of the fetched list is updated and no
\* record is created; otherwise exactly one record is created.
C9_AsStated ==
    [][PweEntryStep =>
         IF \E w \in workHistory :
               w.userId = req.userId /\ doWorkHistoryRecordsMatch(w, PweExp)
         THEN PweFirstFetchedUpdated(PweExp)
         ELSE PweCreatedOne(req.userId, PweExp)]_vars

\* C9 (amended): every entry is handled in exactly one of two ways: if some
\* record of the list fetched at the start of the call matches the entry,
\* the first such record is updated (jobTitle, startDate, endDate from the
\* entry when present, companyName unchanged) and no record is created;
\* otherwise exactly one record is created for the user, with company and
\* job title defaulting to "" and startDate to the current time.
C9_HandlesEntry ==
    [][PweEntryStep =>
         IF \E i \in 1..Len(req.existingWorkHistory) :
               doWorkHistoryRecordsMatch(req.existingWorkHistory[i], PweExp)
         THEN PweFirstFetchedUpdated(PweExp)
         ELSE PweCreatedOne(req.userId, PweExp)]_vars

\* An import of two entries has returned: one entry matched both stored
\* records of the caller and exactly one of them now has the entry's job
\* title and start date; the other entry matched nothing and became record
\* 5, with the default company, job title and start date.
C9_Witness ==
    /\ call = [op |-> PweOp, outcome |-> "return"]
    /\ Cardinality({w \in workHistory :
                       /\ w.id \in {1, 2}
                       /\ w.jobTitle = Lead
                       /\ w.startDate = SameMonth}) = 1
    /\ \E w \in workHistory :
          /\ w.id = 5
          /\ w.userId = Caller
          /\ w.companyName = <<>>
          /\ w.jobTitle = <<>>
          /\ w.startDate = Now
    /\ Cardinality(workHistory) = 4

-----------------------------------------------------------------------------
(* addUserSkillToWork / removeUserSkillFromWork                             *)
(*                                                                          *)
(*   input of addUserSkillToWork : [workHistoryId, skillName,               *)
(*        proficiency : Opt(level), yearsExperience : Opt(number),          *)
(*        notes : Opt(string)]                                              *)

AddOp == "addUserSkillToWork"
RemoveOp == "removeUserSkillFromWork"

\* const proficiencyLevels = { BEGINNER: 1, INTERMEDIATE: 2, ADVANCED: 3, EXPERT: 4 }
proficiencyLevels ==
    [p \in {"BEGINNER", "INTERMEDIATE", "ADVANCED", "EXPERT"} |->
        CASE p = "BEGINNER" -> 1
          [] p = "INTERMEDIATE" -> 2
          [] p = "ADVANCED" -> 3
          [] p = "EXPERT" -> 4]

\* String.prototype.includes
Includes(s, sub) ==
    \E i \in 0..(Len(s) - Len(sub)) : SubSeq(s, i + 1, i + Len(sub)) = sub

UsedAtMark == <<"U", "s", "e", "d", " ", "a", "t">>

\* "Previously linked to work experience"
PreviouslyLinked ==
    <<"P", "r", "e", "v", "i", "o", "u", "s", "l", "y", " ", "l", "i", "n", "k",
      "e", "d", " ", "t", "o", " ", "w", "o", "r", "k", " ", "e", "x", "p", "e",
      "r", "i", "e", "n", "c", "e">>

\* " (previously linked to work experience)"
PreviouslyLinkedSuffix ==
    <<" ", "(", "p">> \o Tail(PreviouslyLinked) \o <<")">>

\* A string option is truthy when it is present and not empty.
Truthy(o) == IsSome(o) /\ Get(o) # <<>>

\* A filter that keeps any skill with notes.
ShouldKeepSkillAnyNotes(us) ==
    \/ us.source # "WORK_EXPERIENCE"
    \/ Truthy(us.notes)
    \/ us.yearsExperience # None

\* shouldKeepSkill = isFromNonWorkSource || hasCustomNotes || hasYearsExperience
ShouldKeepSkill(us) ==
    LET isFromNonWorkSource == us.source # "WORK_EXPERIENCE"
        hasCustomNotes == Truthy(us.notes) /\ ~Includes(Get(us.notes), UsedAtMark)
        hasYearsExperience == us.yearsExperience # None
    IN  isFromNonWorkSource \/ hasCustomNotes \/ hasYearsExperience

\* The record as the keeping update leaves it.
UnlinkedUserSkill(us) ==
    [us EXCEPT !.workHistoryId = None,
               !.notes = IF Truthy(us.notes)
                         THEN Some(Get(us.notes) \o PreviouslyLinkedSuffix)
                         ELSE Some(PreviouslyLinked)]

\* `call` after removeUserSkillFromWork returned or threw.
RemoveCall(userSkillId, workHistoryId, outcome, deleted) ==
    [op |-> RemoveOp, outcome |-> outcome, userSkillId |-> userSkillId,
     workHistoryId |-> workHistoryId, deleted |-> deleted]

RemoveUserSkillFromWork(userId, userSkillId, workHistoryId) ==
    LET found == {us \in userSkill : us.id = userSkillId /\ us.userId = userId}
        us == CHOOSE r \in found : TRUE
    IN  IF found = {}
        THEN /\ call' = RemoveCall(userSkillId, workHistoryId, "throw", FALSE)
             /\ UNCHANGED <<workHistory, workAchievement, userSkill, nextId, req>>
        ELSE IF us.workHistoryId # Some(workHistoryId)
        THEN /\ call' = RemoveCall(userSkillId, workHistoryId, "throw", FALSE)
             /\ UNCHANGED <<workHistory, workAchievement, userSkill, nextId, req>>
        ELSE IF ShouldKeepSkill(us)
        THEN /\ userSkill' = (userSkill \ {us}) \cup {UnlinkedUserSkill(us)}
             /\ call' = RemoveCall(userSkillId, workHistoryId, "return", FALSE)
             /\ UNCHANGED <<workHistory, workAchievement, nextId, req>>
        ELSE /\ userSkill' = userSkill \ {us}
             /\ call' = RemoveCall(userSkillId, workHistoryId, "return", TRUE)
             /\ UNCHANGED <<workHistory, workAchievement, nextId, req>>

UniqueConstraintFailed == "Unique constraint failed"
ForeignKeyFailed == "Foreign key constraint failed"

\* error.message.includes("Unique constraint failed")
IsUniqueConstraintError(error) == error = UniqueConstraintFailed

\* The Skill table: canonical name and aliases of each skill.
SkillTable ==
    { [id |-> "s1", name |-> "TypeScript", aliases |-> {"ts"}],
      [id |-> "s2", name |-> "Next.js", aliases |-> {}] }

\* What skillNormalizer.normalizeSkill(skillName, "OTHER") may do
\* (~/server/services/skill-normalization): return no, one or two
\* normalized skills, or throw.
NormalizeSkillOutcomes(skillName) ==
    { [error |-> "", skills |-> <<NormalizedSkill("s1", None)>>],
      [error |-> "", skills |-> <<>>],
      [error |-> "", skills |-> <<NormalizedSkill("s1", None),
                                  NormalizedSkill("s2", None)>>],
      [error |-> UniqueConstraintFailed, skills |-> <<>>],
      [error |-> "normalization failed", skills |-> <<>>] }

\* The workHistoryId of a UserSkill must reference a WorkHistory row.
WorkHistoryExists(workHistoryId) == \E w \in workHistory : w.id = workHistoryId

\* An update that always takes the requested proficiency.
UpdatedUserSkillOverwrite(existingUserSkill, input) ==
    [existingUserSkill EXCEPT
        !.proficiency = OrElse(input.proficiency, "INTERMEDIATE"),
        !.workHistoryId = Some(input.workHistoryId),
        !.source = "WORK_EXPERIENCE"]

\* Lines 249-297: the data written to a UserSkill the user already has.
UpdatedUserSkill(existingUserSkill, input) ==
    LET proficiency == OrElse(input.proficiency, "INTERMEDIATE")
        currentLevel == proficiencyLevels[existingUserSkill.proficiency]
        newLevel == proficiencyLevels[proficiency]
    IN  [existingUserSkill EXCEPT
            !.proficiency = IF newLevel > currentLevel THEN proficiency
                            ELSE existingUserSkill.proficiency,
            !.yearsExperience =
                IF IsSome(input.yearsExperience)
                THEN Some(Max2(Get(input.yearsExperience),
                               OrElse(existingUserSkill.yearsExperience, 0)))
                ELSE existingUserSkill.yearsExperience,
            !.workHistoryId = Some(input.workHistoryId),
            !.notes = IF Truthy(input.notes)
                      THEN IF Truthy(existingUserSkill.notes)
                           THEN Some(Get(existingUserSkill.notes) \o <<";", " ">>
                                         \o Get(input.notes))
                           ELSE input.notes
                      ELSE existingUserSkill.notes,
            !.source = "WORK_EXPERIENCE"]

\* Lines 347-391: the data written on the unique-constraint fallback path.
FallbackUpdatedUserSkill(existingUserSkill, input) ==
    LET proficiency == OrElse(input.proficiency, "INTERMEDIATE")
        currentLevel == proficiencyLevels[existingUserSkill.proficiency]
        newLevel == proficiencyLevels[proficiency]
    IN  [id |-> existingUserSkill.id,
         userId |-> existingUserSkill.userId,
         skillId |-> existingUserSkill.skillId,
         proficiency |-> IF newLevel > currentLevel THEN proficiency
                         ELSE existingUserSkill.proficiency,
         yearsExperience |->
             IF IsSome(input.yearsExperience)
             THEN Some(Max2(Get(input.yearsExperience),
                            OrElse(existingUserSkill.yearsExperience, 0)))
             ELSE existingUserSkill.yearsExperience,
         workHistoryId |-> Some(input.workHistoryId),
         notes |-> IF Truthy(input.notes)
                   THEN IF Truthy(existingUserSkill.notes)
                        THEN Some(Get(existingUserSkill.notes) \o <<";", " ">>
                                      \o Get(input.notes))
                        ELSE input.notes
                   ELSE existingUserSkill.notes,
         source |-> "WORK_EXPERIENCE"]

\* Results of a part of the handler: the call returned with the table as
\* given, threw, or reached userSkill.create.
AddReturned(path, table, userSkillId) ==
    [kind |-> "return", path |-> path, table |-> table, userSkillId |-> userSkillId,
     error |-> ""]
AddThrown(error) ==
    [kind |-> "throw", path |-> "none", table |-> {}, userSkillId |-> 0,
     error |-> error]
AddReachedCreate(skillId) ==
    [kind |-> "create", path |-> skillId, table |-> {}, userSkillId |-> 0,
     error |-> ""]

\* The try block up to the decision to create (lines 208-304).
TryAddUserSkill(table, userId, input, outcome) ==
    IF outcome.error # "" THEN AddThrown(outcome.error)
    ELSE IF Len(outcome.skills) > 1 THEN AddThrown("compound skill")
    ELSE IF Len(outcome.skills) = 0 THEN AddThrown("Failed to normalize skill")
    ELSE LET normalizedSkill == outcome.skills[1]
             found == {us \in table : /\ us.userId = userId
                                      /\ us.skillId = normalizedSkill.baseSkillId}
             existingUserSkill == CHOOSE us \in found : TRUE
         IN  IF found = {} THEN AddReachedCreate(normalizedSkill.baseSkillId)
             ELSE IF ~WorkHistoryExists(input.workHistoryId)
             THEN AddThrown(ForeignKeyFailed)
             ELSE AddReturned("update",
                      (table \ {existingUserSkill})
                          \cup {UpdatedUserSkill(existingUserSkill, input)},
                      existingUserSkill.id)

\* ctx.db.userSkill.create (lines 306-320) with @@unique([userId, skillId]).
CreateUserSkill(table, userId, input, skillId, id) ==
    IF \E us \in table : us.userId = userId /\ us.skillId = skillId
    THEN AddThrown(UniqueConstraintFailed)
    ELSE IF ~WorkHistoryExists(input.workHistoryId) THEN AddThrown(ForeignKeyFailed)
    ELSE AddReturned("create",
             table \cup {[id |-> id, userId |-> userId, skillId |-> skillId,
                          proficiency |-> OrElse(input.proficiency, "INTERMEDIATE"),
                          yearsExperience |-> input.yearsExperience,
                          source |-> "WORK_EXPERIENCE",
                          notes |-> input.notes,
                          workHistoryId |-> Some(input.workHistoryId)]},
             id)

\* The catch block (lines 321-396) on what the try block threw.
CatchAddUserSkill(table, userId, input, thrown) ==
    LET named == {sk.id : sk \in {sk \in SkillTable :
                                     \/ sk.name = input.skillName
                                     \/ input.skillName \in sk.aliases}}
        found == {us \in table : us.userId = userId /\ us.skillId \in named}
        existingUserSkill == CHOOSE us \in found : TRUE
    IN  IF ~IsUniqueConstraintError(thrown.error) THEN thrown
        ELSE IF found = {} THEN thrown
        ELSE IF ~WorkHistoryExists(input.workHistoryId) THEN AddThrown(ForeignKeyFailed)
        ELSE AddReturned("fallback",
                 (table \ {existingUserSkill})
                     \cup {FallbackUpdatedUserSkill(existingUserSkill, input)},
                 existingUserSkill.id)

\* `call` after addUserSkillToWork returned a UserSkill.
AddCall(input, path, userSkillId) ==
    [op |-> AddOp, outcome |-> "return", path |-> path,
     proficiency |-> input.proficiency, yearsExperience |-> input.yearsExperience,
     userSkillId |-> userSkillId]

\* The end of the handler on the result of its last part.
AddSettle(result, input, created) ==
    IF result.kind = "return"
    THEN /\ userSkill' = result.table
         /\ nextId' = IF created THEN nextId + 1 ELSE nextId
         /\ call' = AddCall(input, result.path, result.userSkillId)
    ELSE /\ call' = [op |-> AddOp, outcome |-> "throw"]
         /\ UNCHANGED <<userSkill, nextId>>

\* userSkill.create and, when it throws, the catch block.
AddCreateAndSettle(userId, input, skillId) ==
    LET created == CreateUserSkill(userSkill, userId, input, skillId, nextId)
    IN  IF created.kind = "return"
        THEN CanCreate(1) /\ AddSettle(created, input, TRUE)
        ELSE AddSettle(CatchAddUserSkill(userSkill, userId, input, created),
                       input, FALSE)

\* addUserSkillToWork up to its return, its throw, or the await of
\* userSkill.create.  The first request to reach the create is suspended
\* there; a request that reaches it while another one is suspended runs
\* it at once.
AddUserSkillToWork(userId, input, outcome) ==
    LET tried == TryAddUserSkill(userSkill, userId, input, outcome)
    IN  /\ IF tried.kind = "create"
           THEN IF req = Idle
                THEN /\ req' = [op |-> AddOp, userId |-> userId, input |-> input,
                                skillId |-> tried.path]
                     /\ call' = [op |-> AddOp, outcome |-> "pending"]
                     /\ UNCHANGED <<userSkill, nextId>>
                ELSE /\ AddCreateAndSettle(userId, input, tried.path)
                     /\ UNCHANGED req
           ELSE /\ AddSettle(IF tried.kind = "throw"
                             THEN CatchAddUserSkill(userSkill, userId, input, tried)
                             ELSE tried,
                             input, FALSE)
                /\ UNCHANGED req
        /\ UNCHANGED <<workHistory, workAchievement>>

\* The suspended request runs userSkill.create.
AddUserSkillCreate ==
    /\ req.op = AddOp
    /\ AddCreateAndSettle(req.userId, req.input, req.skillId)
    /\ req' = Idle
    /\ UNCHANGED <<workHistory, workAchievement>>

-----------------------------------------------------------------------------
(* Specification of the skill procedures: user u1 owns work histories 1 and *)
(* 2, user u2 owns 3 and a UserSkill of s1 linked to it.  u1 starts with no *)
(* UserSkill of s1, or with one: row 5 when it came from a non-work source, *)
(* row 6 when it came from work experience.                                 *)

MaxNotesLen == 60

ProfileSkillId == 5
WorkSkillId == 6

Mentoring == <<"l", "e", "d", " ", "e", "v", "a", "l", "u", "a", "t", "i", "o", "n">>
UsedAtAcme == UsedAt([company |-> Some(Acme), jobTitle |-> Some(Engineer)])

UserSkillRow(id, userId, workHistoryId, proficiency, yearsExperience, source, notes) ==
    [id |-> id, userId |-> userId, skillId |-> "s1", workHistoryId |-> workHistoryId,
     proficiency |-> proficiency, yearsExperience |-> yearsExperience,
     source |-> source, notes |-> notes]

OtherUsersSkill == UserSkillRow(4, "u2", Some(3), "BEGINNER", None, "OTHER", None)

InitialUserSkills ==
    { {},
      {UserSkillRow(ProfileSkillId, "u1", None, "ADVANCED", None, "OTHER", None)},
      {UserSkillRow(ProfileSkillId, "u1", Some(1), "BEGINNER", None, "EDUCATION", None)},
      {UserSkillRow(WorkSkillId, "u1", Some(1), "INTERMEDIATE", None,
                    "WORK_EXPERIENCE", Some(UsedAtAcme))},
      {UserSkillRow(WorkSkillId, "u1", Some(1), "EXPERT", Some(5),
                    "WORK_EXPERIENCE", None)},
      {UserSkillRow(WorkSkillId, "u1", Some(2), "INTERMEDIATE", None,
                    "WORK_EXPERIENCE", Some(Mentoring))} }

InitSkill ==
    /\ workHistory = {StoredWorkHistory(1, "u1"), StoredWorkHistory(2, "u1"),
                      StoredWorkHistory(3, "u2")}
    /\ workAchievement = <<>>
    /\ \E rows \in InitialUserSkills : userSkill = rows \cup {OtherUsersSkill}
    /\ nextId = 7
    /\ req = Idle
    /\ call = [op |-> "none"]

AddInputs ==
    [workHistoryId : {1, MissingId},
     skillName : {"ts"},
     proficiency : {None, Some("BEGINNER"), Some("EXPERT")},
     yearsExperience : {None, Some(3)},
     notes : {None, Some(Mentoring)}]

\* Notes only grow: they are kept within MaxNotesLen characters.
NotesWithinBound ==
    \A us \in userSkill : Len(OrElse(us.notes, <<>>)) <= MaxNotesLen

DoAddUserSkillToWork ==
    \E input \in AddInputs :
        \E outcome \in NormalizeSkillOutcomes(input.skillName) :
            /\ AddUserSkillToWork(Caller, input, outcome)
            /\ NotesWithinBound'

DoAddUserSkillCreate ==
    /\ AddUserSkillCreate
    /\ NotesWithinBound'

\* <<userSkillId, workHistoryId>> inputs of removeUserSkillFromWork
RemoveInputs == {<<4, 3>>} \cup ((ProfileSkillId..MaxRowId) \X {1, 2})

DoRemoveUserSkillFromWork ==
    \E input \in RemoveInputs :
        /\ RemoveUserSkillFromWork(Caller, input[1], input[2])
        /\ NotesWithinBound'

NextSkill ==
    \/ DoAddUserSkillToWork
    \/ DoAddUserSkillCreate
    \/ DoRemoveUserSkillFromWork

SpecSkill == InitSkill /\ [][NextSkill]_vars

\* The UserSkill rows of the caller that the remove call of this step names
\* and that are linked to the work history it names.
RemoveTargets ==
    {r \in userSkill : /\ call'.op = RemoveOp
                       /\ r.id = call'.userSkillId
                       /\ r.userId = Caller
                       /\ r.workHistoryId = Some(call'.workHistoryId)}

\* Row r is still stored, unlinked, with the remark added to its notes and
\* nothing else changed.
KeptUnlinked(r) ==
    \E k \in userSkill' :
        /\ k.id = r.id
        /\ k.workHistoryId = None
        /\ IsSome(k.notes)
        /\ Includes(Get(k.notes), Tail(PreviouslyLinked))
        /\ SubSeq(Get(k.notes), 1, Len(OrElse(r.notes, <<>>))) = OrElse(r.notes, <<>>)
        /\ [k EXCEPT !.workHistoryId = r.workHistoryId, !.notes = r.notes] = r

\* C11: removeUserSkillFromWork on a UserSkill of the caller linked to the
\* given work history keeps it (workHistoryId null, remark added to notes,
\* deleted = false) when its source is not WORK_EXPERIENCE, or its notes are
\* non-empty without "Used at", or its yearsExperience is not null;
\* otherwise it deletes the record and returns deleted = true.
C11_KeepsOrDeletes ==
    [][\A r \in RemoveTargets :
          /\ call'.outcome = "return"
          /\ IF \/ r.source # "WORK_EXPERIENCE"
                \/ (r.notes # None /\ r.notes # Some(<<>>)
                       /\ ~Includes(Get(r.notes), UsedAtMark))
                \/ r.yearsExperience # None
             THEN KeptUnlinked(r) /\ ~call'.deleted
             ELSE (\A k \in userSkill' : k.id # r.id) /\ call'.deleted]_vars

\* The work-experience skill with custom notes was removed from work history
\* 2 and kept, unlinked, with the remark appended.
C11_Witness ==
    /\ call = RemoveCall(WorkSkillId, 2, "return", FALSE)
    /\ \E k \in userSkill :
          /\ k.id = WorkSkillId
          /\ k.source = "WORK_EXPERIENCE"
          /\ k.workHistoryId = None
          /\ k.notes = Some(Mentoring \o PreviouslyLinkedSuffix)

\* The work-experience skill whose notes say "Used at ..." was removed from
\* work history 1 and deleted.
C11_WitnessDeleted ==
    /\ call = RemoveCall(WorkSkillId, 1, "return", TRUE)
    /\ \A k \in userSkill : k.id # WorkSkillId

\* C12: a UserSkill that came from a non-work source (row ProfileSkillId)
\* and for which no notes and no yearsExperience were ever supplied is
\* unlinked, not deleted, by removeUserSkillFromWork, whatever
\* addUserSkillToWork and removeUserSkillFromWork calls came before.
C12_ProfileSkillKept ==
    [][\A r \in RemoveTargets :
          (r.id = ProfileSkillId /\ r.notes = None /\ r.yearsExperience = None)
             => /\ call'.outcome = "return"
                /\ ~call'.deleted
                /\ \E k \in userSkill' : k.id = r.id /\ k.workHistoryId = None]_vars

\* The step is an addUserSkillToWork call that returned after updating a
\* UserSkill the user already had (directly or on the fallback path).
AddUpdatedExisting ==
    /\ call'.op = AddOp
    /\ call'.outcome = "return"
    /\ call'.path \in {"update", "fallback"}

\* The larger of a supplied number and a stored optional number.
MaxOfSuppliedAndStored(supplied, stored) ==
    IF IsSome(stored) /\ Get(stored) > supplied THEN Get(stored) ELSE supplied

\* C13: addUserSkillToWork on a skill the user already has never lowers it:
\* the stored proficiency changes only when the requested level
\* (INTERMEDIATE when omitted) ranks strictly higher, and then becomes the
\* requested level; yearsExperience becomes the maximum of the supplied and
\* stored values when one is supplied and is unchanged otherwise; on the
\* direct path and on the unique-constraint fallback path alike.
C13_NeverLowers ==
    [][AddUpdatedExisting =>
         \A r \in userSkill : r.id = call'.userSkillId =>
            \E k \in userSkill' :
               LET requested == IF call'.proficiency = None THEN "INTERMEDIATE"
                                ELSE call'.proficiency[1]
               IN  /\ k.id = r.id
                   /\ r.userId = Caller
                   /\ proficiencyLevels[k.proficiency] >= proficiencyLevels[r.proficiency]
                   /\ k.proficiency # r.proficiency =>
                         /\ proficiencyLevels[requested] > proficiencyLevels[r.proficiency]
                         /\ k.proficiency = requested
                   /\ IF call'.yearsExperience # None
                      THEN k.yearsExperience =
                              Some(MaxOfSuppliedAndStored(call'.yearsExperience[1],
                                                          r.yearsExperience))
                      ELSE k.yearsExperience = r.yearsExperience]_vars

\* A call asking for BEGINNER and 3 years took the fallback path on the
\* EXPERT skill with 5 years: both values are still stored.
C13_Witness ==
    /\ call.op = AddOp
    /\ call.outcome = "return"
    /\ call.path = "fallback"
    /\ call.proficiency = Some("BEGINNER")
    /\ call.yearsExperience = Some(3)
    /\ \E k \in userSkill : /\ k.id = call.userSkillId
                            /\ k.proficiency = "EXPERT"
                            /\ k.yearsExperience = Some(5)

\* Two calls raced: the suspended one hit the unique constraint on the row
\* the other had created (row 7) and raised it to EXPERT on the fallback path.
C13_WitnessRace ==
    /\ call.op = AddOp
    /\ call.outcome = "return"
    /\ call.path = "fallback"
    /\ call.userSkillId = 7
    /\ call.proficiency = Some("EXPERT")
    /\ req = Idle
    /\ \E k \in userSkill : k.id = 7 /\ k.proficiency = "EXPERT"

-----------------------------------------------------------------------------
(* TailoredResumeGenerator.generateResumeWithLLM / generateCoverLetterWithLLM *)
(* (src/src/server/services/tailored-resume-generator.ts)                   *)
(*                                                                          *)
(*   a value      : [content : Opt(string)], valid when content is present  *)
(*   an error     : [isError (instanceof Error), message]                   *)
(*   req while a generation runs : [op, kind ("resume" / "coverLetter"),    *)
(*                   llmCalls, error (what the structured attempt threw)]   *)

GenOp == "generateWithLLM"

GenKinds == {"resume", "coverLetter"}

\* TailoredResumeSchema.parse / TailoredCoverLetterSchema.parse succeed
SatisfiesSchema(value) == IsSome(value.content)

ZodError == [isError |-> TRUE, message |-> "Required"]
SyntaxError == [isError |-> TRUE, message |-> "Unexpected token"]

\* The backtick character (a TLA+ string cannot hold one).
Backtick == "<backtick>"

Fence == <<Backtick, Backtick, Backtick>>
FenceJson == Fence \o <<"j", "s", "o", "n">>

\* String.prototype.startsWith
StartsWith(s, prefix) ==
    Len(s) >= Len(prefix) /\ SubSeq(s, 1, Len(prefix)) = prefix

\* s.replace(/^<prefix>\s*/, "")
ReplaceLeading(s, prefix) ==
    IF StartsWith(s, prefix) THEN TrimStart(SubSeq(s, Len(prefix) + 1, Len(s)))
    ELSE s

\* s.replace(/\s*```$/, "")
ReplaceTrailingFence(s) ==
    IF Len(s) >= 3 /\ SubSeq(s, Len(s) - 2, Len(s)) = Fence
    THEN TrimEnd(SubSeq(s, 1, Len(s) - 3))
    ELSE s

\* Lines 330-340 / 550-559: trim, then remove a markdown code fence.
CleanJson(content) ==
    LET jsonStr == Trim(content)
    IN  IF StartsWith(jsonStr, FenceJson)
        THEN ReplaceTrailingFence(ReplaceLeading(jsonStr, FenceJson))
        ELSE IF StartsWith(jsonStr, Fence)
        THEN ReplaceTrailingFence(ReplaceLeading(jsonStr, Fence))
        ELSE jsonStr

\* The JSON texts of the model: {"content":"hi"}, {} and [] (a stringified
\* array of content blocks); every other text is a syntax error.
GoodJson == <<"{", "\"content\"", ":", "\"hi\"", "}">>
EmptyJson == <<"{", "}">>
BlocksJson == <<"[", "]">>

\* JSON.parse: [ok, value]; white space around the document is allowed.
JSONParse(text) ==
    LET doc == Trim(text)
    IN  IF doc = GoodJson THEN [ok |-> TRUE, value |-> [content |-> Some("hi")]]
        ELSE IF doc \in {EmptyJson, BlocksJson}
        THEN [ok |-> TRUE, value |-> [content |-> None]]
        ELSE [ok |-> FALSE, value |-> [content |-> None]]

\* typeof content === "string" ? content : JSON.stringify(content)
ContentText(content) ==
    IF content.isString THEN content.text ELSE BlocksJson

\* The fallback try block after llm.invoke returned: [ok, value, error].
ParseFallback(content) ==
    LET parsed == JSONParse(CleanJson(ContentText(content)))
    IN  IF ~parsed.ok THEN [ok |-> FALSE, value |-> parsed.value, error |-> SyntaxError]
        ELSE IF ~SatisfiesSchema(parsed.value)
        THEN [ok |-> FALSE, value |-> parsed.value, error |-> ZodError]
        ELSE [ok |-> TRUE, value |-> parsed.value, error |-> ZodError]

FailedPrefix(kind) ==
    IF kind = "resume" THEN "Failed to generate tailored resume"
    ELSE "Failed to generate tailored cover letter"

\* A failure message built from the error of the retry.
FailureMessageOfRetry(kind, error, fallbackError) ==
    IF fallbackError.isError THEN <<FailedPrefix(kind), ": ", fallbackError.message>>
    ELSE <<FailedPrefix(kind), " due to an unknown error">>

\* Lines 346-357 / 566-577: the message of the Error thrown when the retry
\* failed too.
FailureMessage(kind, error, fallbackError) ==
    IF error.isError THEN <<FailedPrefix(kind), ": ", error.message>>
    ELSE <<FailedPrefix(kind), " due to an unknown error">>

NothingThrown == [isError |-> FALSE, message |-> ""]
NoContent == [isString |-> TRUE, text |-> <<>>]
NoValue == [content |-> None]

GenCall(kind, outcome, value, message, llmCalls, error, fallbackError, content) ==
    [op |-> GenOp, kind |-> kind, outcome |-> outcome, value |-> value,
     message |-> message, llmCalls |-> llmCalls, error |-> error,
     fallbackError |-> fallbackError, content |-> content]

\* Entry of generateResumeWithLLM / generateCoverLetterWithLLM up to the
\* await of llmWithStructuredOutput.invoke (lines 297-302 / 518-523).
GenStart(kind) ==
    /\ req = Idle
    /\ req' = [op |-> GenOp, kind |-> kind, pc |-> "structured",
               llmCalls |-> 1, error |-> NothingThrown]
    /\ call' = GenCall(kind, "pending", NoValue, <<>>, 1, NothingThrown, NothingThrown, NoContent)
    /\ UNCHANGED <<workHistory, workAchievement, userSkill, nextId>>

\* The structured call settles (lines 302-324 / 523-543): its response is
\* validated and returned, or what was thrown is caught and llm.invoke is
\* awaited.  outcome: [threw, error, value]
GenStructured(outcome) ==
    /\ req.op = GenOp
    /\ req.pc = "structured"
    /\ LET error == IF outcome.threw THEN outcome.error ELSE ZodError
       IN  IF ~outcome.threw /\ SatisfiesSchema(outcome.value)
           THEN /\ req' = Idle
                /\ call' = GenCall(req.kind, "return", outcome.value, <<>>,
                                   req.llmCalls, NothingThrown, NothingThrown, NoContent)
           ELSE /\ req' = [req EXCEPT !.pc = "fallback",
                                      !.llmCalls = req.llmCalls + 1,
                                      !.error = error]
                /\ call' = GenCall(req.kind, "pending", NoValue, <<>>,
                                   req.llmCalls + 1, error, NothingThrown, NoContent)
    /\ UNCHANGED <<workHistory, workAchievement, userSkill, nextId>>

\* The retry settles (lines 326-357 / 545-577).  outcome: [threw, error, content]
GenFallback(outcome) ==
    /\ req.op = GenOp
    /\ req.pc = "fallback"
    /\ LET parsed == ParseFallback(outcome.content)
           fallbackError == IF outcome.threw THEN outcome.error ELSE parsed.error
       IN  IF ~outcome.threw /\ parsed.ok
           THEN call' = GenCall(req.kind, "return", parsed.value, <<>>,
                                req.llmCalls, req.error, NothingThrown, outcome.content)
           ELSE call' = GenCall(req.kind, "throw", NoValue,
                                FailureMessage(req.kind, req.error, fallbackError),
                                req.llmCalls, req.error, fallbackError,
                                IF outcome.threw THEN NoContent ELSE outcome.content)
    /\ req' = Idle
    /\ UNCHANGED <<workHistory, workAchievement, userSkill, nextId>>

-----------------------------------------------------------------------------
(* Specification of the generation: what the two LLM calls may answer.      *)

\* What an LLM call can throw: two Errors, and a value that is no Error
\* although it has a message.
ThrownValues ==
    { [isError |-> TRUE, message |-> "rate limit"],
      [isError |-> TRUE, message |-> "timeout"],
      [isError |-> FALSE, message |-> "aborted"] }

ResponseValues == { [content |-> Some("hi")], [content |-> None] }

StructuredOutcomes ==
    { [threw |-> FALSE, error |-> NothingThrown, value |-> v] : v \in ResponseValues }
    \cup { [threw |-> TRUE, error |-> e, value |-> NoValue] : e \in ThrownValues }

Prose == <<"S", "u", "r", "e", ":">>
Newline == <<"\n">>

JsonBodies == {GoodJson, EmptyJson, Prose}

FenceLanguages == {<<>>, <<"j", "s", "o", "n">>}

\* body surrounded by a markdown code fence
Fenced(language, body) ==
    Fence \o language \o Newline \o body \o Newline \o Fence

FallbackTexts ==
    JsonBodies
    \cup { Fenced(l, b) : l \in FenceLanguages, b \in JsonBodies }
    \cup { <<" ">> \o Fenced(l, GoodJson) \o Newline : l \in FenceLanguages }
    \cup { <<" ", " ">> \o GoodJson \o Newline,
           FenceJson \o GoodJson \o Fence,
           FenceJson \o Newline \o GoodJson,
           GoodJson \o Newline \o Fence,
           Prose \o Newline \o Fenced(<<"j", "s", "o", "n">>, GoodJson) }

FallbackContents ==
    { [isString |-> TRUE, text |-> t] : t \in FallbackTexts }
    \cup { [isString |-> FALSE, text |-> <<>>] }

FallbackOutcomes ==
    { [threw |-> FALSE, error |-> NothingThrown, content |-> c] : c \in FallbackContents }
    \cup { [threw |-> TRUE, error |-> e, content |-> NoContent] : e \in ThrownValues }

InitGen ==
    /\ EmptyDatabase
    /\ call = [op |-> "none"]

DoGenStart == \E kind \in GenKinds : GenStart(kind)

DoGenStructured == \E outcome \in StructuredOutcomes : GenStructured(outcome)

DoGenFallback == \E outcome \in FallbackOutcomes : GenFallback(outcome)

NextGen == DoGenStart \/ DoGenStructured \/ DoGenFallback

SpecGen == InitGen /\ [][NextGen]_vars

GenSettled == call.op = GenOp /\ call.outcome \in {"return", "throw"}

GenRetried == call.op = GenOp /\ call.llmCalls = 2

\* The retry answered a string that is `body` inside a markdown code fence.
RetryAnsweredFenced(body) ==
    /\ call.content.isString
    /\ \E l \in FenceLanguages : Trim(call.content.text) = Fenced(l, body)

\* C14 as stated, its last clause: whenever generation throws, the message is
\* 'Failed to generate tailored resume: <message>' (or the cover-letter
\* equivalent) with the message of the first error.
C14_AsStated ==
    (GenSettled /\ call.outcome = "throw")
        => call.message = <<FailedPrefix(call.kind), ": ", call.error.message>>

\* C14, amended: a request makes at most two LLM calls, the structured one
\* first and one retry only after the structured call threw or its result
\* failed validation; the retry's text is stripped of a surrounding code
\* fence, parsed as JSON and validated; every returned value satisfies the
\* schema; when both attempts fail the function throws 'Failed to generate
\* tailored resume: <message>' (or the cover-letter equivalent) with the
\* message of the first error when what the first attempt threw is an Error,
\* and 'Failed to generate tailored resume due to an unknown error' (or the
\* cover-letter equivalent) when it is not.
C14_TwoAttempts ==
    call.op = GenOp =>
        /\ call.llmCalls \in 1..2
        /\ req.op = GenOp =>
              /\ req.llmCalls = call.llmCalls
              /\ (req.pc = "structured") <=> (call.llmCalls = 1)
        /\ GenRetried <=> (call.error \in ThrownValues \cup {ZodError})
        /\ call.outcome = "return" => SatisfiesSchema(call.value)
        /\ (GenSettled /\ GenRetried /\ RetryAnsweredFenced(GoodJson)) =>
              /\ call.outcome = "return"
              /\ call.value = [content |-> Some("hi")]
        /\ (GenSettled /\ GenRetried) =>
              \A body \in JsonBodies \ {GoodJson} :
                  RetryAnsweredFenced(body) => call.outcome = "throw"
        /\ call.outcome = "throw" =>
              /\ GenRetried
              /\ call.message =
                    IF call.error.isError
                    THEN <<FailedPrefix(call.kind), ": ", call.error.message>>
                    ELSE <<FailedPrefix(call.kind), " due to an unknown error">>

\* Both attempts threw Errors with different messages.
C14_Witness ==
    /\ GenSettled
    /\ call.outcome = "throw"
    /\ call.llmCalls = 2
    /\ call.error.isError
    /\ call.fallbackError.isError
    /\ call.error.message # call.fallbackError.message

\* A retry that answered fenced JSON returned its value.
C14_WitnessFenced ==
    /\ GenSettled
    /\ call.outcome = "return"
    /\ call.llmCalls = 2
    /\ RetryAnsweredFenced(GoodJson)

-----------------------------------------------------------------------------
(* mergeWorkHistoryRecords: failure and success as a whole (SpecMerge)      *)

\* The step is a merge that returned success: false.
MergeReturnedFailure ==
    call'.op = MergeOp /\ call'.outcome = "return" /\ ~call'.result.success

OwnedByCaller(id) == \E w \in workHistory : w.id = id /\ w.userId = Caller

\* The four steps of the transaction, read off the tables before and after.
FourStepsApplied(p, secs, d) ==
    /\ \E w \in workHistory' :
          /\ w.id = p
          /\ w.companyName = d.companyName
          /\ w.jobTitle = d.jobTitle
          /\ Some(w.startDate) = ParseDate(d.startDate)
          /\ w.endDate = MergedEndDate(d.endDate).value
    /\ TextsOn(workAchievement', p) =
          TextsOn(workAchievement, p)
              \cup UNION {TextsOn(workAchievement, sec) : sec \in secs}
    /\ \A us \in userSkill :
          IF \E sec \in secs : us.workHistoryId = Some(sec)
          THEN IF \E own \in userSkill : /\ own.workHistoryId = Some(p)
                                         /\ own.skillId = us.skillId
               THEN \A k \in userSkill' : k.id # us.id
               ELSE [us EXCEPT !.workHistoryId = Some(p)] \in userSkill'
          ELSE us \in userSkill'
    /\ \A k \in userSkill' : \E us \in userSkill : us.id = k.id
    /\ {w.id : w \in workHistory'} = {w.id : w \in workHistory} \ secs
    /\ \A w \in workHistory : (w.id # p /\ w.id \notin secs) => w \in workHistory'

\* C15: mergeWorkHistoryRecords never throws; a merge that did not succeed
\* returns success = false with a message and leaves every table as it was;
\* a merge succeeds only when the primary and all secondary ids are records
\* of the caller and no step of the transaction failed, and then all four
\* steps have been applied.
C15_AllOrNothing ==
    [][call'.op = MergeOp =>
         /\ call'.outcome = "return"
         /\ MergeReturnedFailure =>
               /\ call'.result.message # ""
               /\ workHistory' = workHistory
               /\ workAchievement' = workAchievement
               /\ userSkill' = userSkill
               /\ nextId' = nextId
         /\ MergeSucceeded =>
               /\ OwnedByCaller(call'.primaryRecordId)
               /\ \A sec \in Range(call'.secondaryRecordIds) : OwnedByCaller(sec)
               /\ IsSome(ParseDate(call'.mergedDetails.startDate))
               /\ MergedEndDate(call'.mergedDetails.endDate).valid
               /\ FourStepsApplied(call'.primaryRecordId,
                                   Range(call'.secondaryRecordIds),
                                   call'.mergedDetails)]_vars

\* A merge failed inside the transaction and all four records are in place.
C15_Witness ==
    /\ call.op = MergeOp
    /\ ~call.result.success
    /\ call.result.message = "transaction failed"
    /\ {w.id : w \in workHistory} = {1, 2, 3, 4}
    /\ \E us \in userSkill : us.workHistoryId = Some(2)

\* A merge moved the skill of work history 2 to work history 1.
C15_WitnessApplied ==
    /\ call.op = MergeOp
    /\ call.result.success
    /\ call.primaryRecordId = 1
    /\ 2 \in Range(call.secondaryRecordIds)
    /\ \E us \in userSkill : us.id = 101 /\ us.workHistoryId = Some(1)

-----------------------------------------------------------------------------
(* processWorkExperience: achievements of a matching record (SpecPwe)       *)

\* The step is a loop iteration whose entry matches a fetched record.
PweMatchedStep ==
    PweEntryStep /\ FindIndex(req.existingWorkHistory, PweExp) # 0

PweMatchingRecord ==
    req.existingWorkHistory[FindIndex(req.existingWorkHistory, PweExp)]

\* The number of stored achievements of a work history with a description.
StoredCount(table, workHistoryId, description) ==
    Cardinality({i \in 1..Len(table) :
                    /\ table[i].workHistoryId = workHistoryId
                    /\ table[i].description = description})

\* C16: when an entry matches a record, every stored achievement stays as it
\* is and one new achievement of that record is created for every
\* description mergeWorkAchievements returned, in order, so the record holds
\* its former achievements plus the whole merged list; a merged description
\* the record already stored is then stored at least twice.
C16_AppendsMergedList ==
    [][PweMatchedStep =>
         LET merged == req'.mergedAchievements
             n == Len(workAchievement)
         IN  /\ Len(workAchievement') = n + Len(merged)
             /\ SubSeq(workAchievement', 1, n) = workAchievement
             /\ \A i \in 1..Len(merged) :
                   /\ workAchievement'[n + i].description = merged[i]
                   /\ workAchievement'[n + i].workHistoryId = PweMatchingRecord.id
                   /\ \A j \in 1..n :
                         workAchievement[j].id # workAchievement'[n + i].id
             /\ \A i \in 1..Len(merged) :
                   StoredCount(workAchievement, PweMatchingRecord.id, merged[i]) > 0
                      => StoredCount(workAchievement', PweMatchingRecord.id,
                                     merged[i]) >= 2]_vars

\* The merged list of an entry matching work history 1 repeated the stored
\* "x" and added "y": the record stores "x" twice and "y".
C16_Witness ==
    /\ req.op = PweOp
    /\ req.mergedAchievements = << <<"x">>, <<"y">> >>
    /\ StoredCount(workAchievement, 1, <<"x">>) = 2
    /\ StoredCount(workAchievement, 1, <<"y">>) = 1
    /\ workAchievement[1] = [id |-> 4, workHistoryId |-> 1, description |-> <<"x">>]

-----------------------------------------------------------------------------
(* processWorkExperience: skills of an entry (SpecPwe)                      *)

\* The work history of the entry of the step: the matching record, or the
\* record the step created.
PweWorkHistoryId ==
    IF FindIndex(req.existingWorkHistory, PweExp) # 0
    THEN PweMatchingRecord.id
    ELSE (CHOOSE w \in PweCreated : TRUE).id

\* The base skills normalizeSkills returned for the entry of the step.
PweBaseSkills ==
    {req'.normalizedSkills[i].baseSkillId : i \in 1..Len(req'.normalizedSkills)}

UserSkillsOf(skills, userId, skillId) ==
    {us \in skills : us.userId = userId /\ us.skillId = skillId}

\* C17: for each normalized skill of an entry, a UserSkill the user already
\* has for the base skill is linked to the entry's work history when it was
\* linked to none and left as it is when it was linked, and none is created;
\* when the user has none, one is created with proficiency INTERMEDIATE,
\* source WORK_EXPERIENCE and the entry's work history.  No other UserSkill
\* is created or changed, and an entry without a non-blank skill string
\* creates and changes none.
C17_UpsertsSkills ==
    [][PweEntryStep =>
         /\ \A b \in PweBaseSkills :
               LET before == UserSkillsOf(userSkill, req.userId, b)
                   after == UserSkillsOf(userSkill', req.userId, b)
               IN  IF before # {}
                   THEN /\ {us.id : us \in after} = {us.id : us \in before}
                        /\ \A us \in before :
                              IF IsSome(us.workHistoryId)
                              THEN us \in after
                              ELSE \E k \in after :
                                      /\ k.workHistoryId = Some(PweWorkHistoryId)
                                      /\ [k EXCEPT !.notes = us.notes,
                                                   !.workHistoryId = None] = us
                   ELSE \E k \in after :
                           /\ after = {k}
                           /\ k.id \notin {us.id : us \in userSkill}
                           /\ k.proficiency = "INTERMEDIATE"
                           /\ k.source = "WORK_EXPERIENCE"
                           /\ k.workHistoryId = Some(PweWorkHistoryId)
         /\ \A us \in userSkill :
               ~(us.userId = req.userId /\ us.skillId \in PweBaseSkills)
                   => us \in userSkill'
         /\ \A k \in userSkill' :
               (k.userId = req.userId /\ k.skillId \in PweBaseSkills)
                   \/ k \in userSkill
         /\ (\A i \in 1..Len(OrElse(PweExp.skills, <<>>)) :
                  \A j \in 1..Len(Get(PweExp.skills)[i]) :
                      IsWhitespace(Get(PweExp.skills)[i][j]))
               => userSkill' = userSkill]_vars

\* An import has linked the caller's unlinked skill s1 to a work history,
\* left the linked s2 as it was and created s3 for the caller.
C17_Witness ==
    /\ call = [op |-> PweOp, outcome |-> "return"]
    /\ \E us \in userSkill : us.id = 101 /\ IsSome(us.workHistoryId)
    /\ SkillRow(102, "u1", "s2", Some(1)) \in userSkill
    /\ \E us \in userSkill :
          /\ us.userId = "u1"
          /\ us.skillId = "s3"
          /\ us.proficiency = "INTERMEDIATE"
          /\ us.source = "WORK_EXPERIENCE"
    /\ SkillRow(103, "u2", "s3", None) \in userSkill

-----------------------------------------------------------------------------
(* deduplicateAndMergeWorkAchievements and concurrent requests (SpecRace)   *)

\* Work history 1 of user u1 holds "x" and "y" (rows 3 and 4), work
\* history 2 of user u2 holds nothing.
InitRace ==
    /\ workHistory = {StoredWorkHistory(1, "u1"), StoredWorkHistory(2, "u2")}
    /\ workAchievement = CreateAchievements(<<>>, 1, << <<"x">>, <<"y">> >>, 3)
    /\ userSkill = {}
    /\ nextId = 5
    /\ req = Idle
    /\ call = [op |-> "none"]

\* Requests of u1 that add achievements and deduplicate, interleaved at the
\* await of the LLM call.
NextRace ==
    \/ DoCreateAchievement
    \/ DoDedupeStart
    \/ DoDedupeFinish

SpecRace == InitRace /\ [][NextRace]_vars

\* The step is the step-4 transaction of a non-dry run.
DedupeWrites ==
    /\ req.op = DedupeOp
    /\ ~req.dryRun
    /\ req' = Idle

\* C18: every achievement the step-4 transaction of a non-dry run deletes
\* was part of the list read in step 1, whatever other requests did while
\* the LLM call was in progress.
C18_NoLostAchievement ==
    [][DedupeWrites =>
         \A i \in 1..Len(workAchievement) :
             workAchievement[i].workHistoryId = req.workHistoryId =>
                \E j \in 1..Len(req.achievements) :
                    req.achievements[j].id = workAchievement[i].id]_vars

=============================================================================
